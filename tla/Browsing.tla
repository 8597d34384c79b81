-------------------------------- MODULE Browsing --------------------------------
(***************************************************************************)
(* The file browser with constants, variables and promises under names     *)
(* that no other module has, so that it can be put beside the keys of      *)
(* InputKeys: Browser, which models it, is an instance.                    *)
(***************************************************************************)
EXTENDS Naturals, FiniteSets

CONSTANTS Rom, Archive, Good, Place, Threshold, Page, HistorySize, Thumbnails, FirstCmd,
          MaxChanges, None

ASSUME BrowserAssumption ==
    /\ Rom \cup Archive \subseteq Nat \ {0} /\ IsFiniteSet(Rom \cup Archive)
    /\ {Threshold, Page, HistorySize, MaxChanges} \subseteq Nat
    /\ Thumbnails \in BOOLEAN

VARIABLES card, path, items, tested, index, found, visits, clip, cmd, mode, options, asked,
          depth, refused, changes

B == INSTANCE Browser

BrowserSpec == B!Spec
-----------------------------------------------------------------------------
(* Callbacks are pushed exactly while something is open that will pop them,*)
(* but for those of a text dialog the system did not open                  *)
(* (TabBrowser::_OnDialog, _PasteFile, InputTextDialog::Open, Run).        *)
LevelsHaveOwners == B!LevelsHaveOwners

(* The next-key goes to files of the list that is shown (Directory::Search,*)
(* SetCurrentPath).                                                        *)
FoundInList == B!FoundInList

(* A file's contents go only with a yes to its name                        *)
(* (TabBrowser::_OnConfirmDialog).                                         *)
ConfirmedOnly == B!ConfirmedOnly

(* The triangle key searches, it changes no file                           *)
(* (TabBrowser::_OnKeyTriangle, _TextInputCallback).                       *)
SearchLeavesCard == B!SearchLeavesCard
=============================================================================
