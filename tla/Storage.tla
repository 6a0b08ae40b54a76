----------------------------- MODULE Storage -----------------------------
(***************************************************************************)
(* The storage interfaces of one process, over the dispatcher they share.  *)
(* Tick runs one closure at a time; the calls of the game come from inside *)
(* a callback, from between frames or from another thread.                 *)
(***************************************************************************)
EXTENDS PlayerDataStorage, TitleStorage

CONSTANT MaxStorageCalls   \* bound: calls of whatever kind; requests since the last death

storageVars == <<pdsVars, titleVars, dispatchVars>>

StorageInit == DispatcherInit /\ PdsInit /\ TitleInit

BatchBegins ==
  /\ live /\ Line # <<>> /\ Drain
  /\ UNCHANGED <<pdsVars, titleVars>>

BatchReturns ==
  /\ transfer = NoTransfer /\ DrainReturns
  /\ UNCHANGED <<pdsVars, titleVars>>

\* A closure begins when the one before it has returned.
RunClosure ==
  /\ transfer = NoTransfer
  /\ \/ BeginTransfer /\ UNCHANGED titleVars
     \/ RunCompletion /\ UNCHANGED titleVars
     \/ \E said \in {"Continue", "Fail", "Cancel"} :
          RunTitleTask(said) /\ UNCHANGED pdsVars

TitleCalls ==
  \/ live /\ \E name \in TitleNames : TitleQueryFile(name) \/ TitleReadFile(name)
  \/ live /\ TitleQueryFileList
  \/ DirectoryChanges

WithinBudget == made + fileCalls + titleCalls < MaxStorageCalls

StorageNext ==
  \/ BatchBegins \/ BatchReturns \/ RunClosure
  \/ \E said \in {"Continue", "Fail", "Cancel"} : TakeData(said) /\ UNCHANGED titleVars
  \/ \E chunk \in {<<>>} \cup {<<b>> : b \in Bytes},
        said \in {"Continue", "Complete", "Fail", "Cancel"} :
          PullData(chunk, said) /\ UNCHANGED titleVars
  \/ CommitWrite /\ UNCHANGED titleVars
  \/ FinishTransfer /\ UNCHANGED titleVars
  \/ LoadFails /\ UNCHANGED <<titleVars, dispatchVars>>
  \/ WithinBudget /\ PdsCalls /\ UNCHANGED titleVars
  \/ CopyFileMetadata /\ UNCHANGED titleVars
  \/ \E r \in RequestIds : Release(r) /\ UNCHANGED titleVars
  \/ EOS_Platform_Create /\ UNCHANGED titleVars
  \/ /\ EOS_Platform_Release
     /\ tsRequest' = IF tsRequest = "pending" THEN "none" ELSE tsRequest
     /\ UNCHANGED <<served, knownNames, titleCalls>>
  \/ Dies /\ TitleForgotten
  \/ WithinBudget /\ TitleCalls /\ UNCHANGED pdsVars
  \/ TitleRelease /\ UNCHANGED pdsVars

StorageSpec == StorageInit /\ [][StorageNext]_storageVars

\* The types of both stores; the closures are theirs, and the index calls of
\* the title storage list each served file once.
StorageTypeOK ==
  /\ PdsTypeOK
  /\ served \subseteq TitleNames
  /\ ToSet(knownNames) \subseteq TitleNames \ UnsafeNames /\ IsInjective(knownNames)
  /\ \A i \in DOMAIN Line : Line[i].kind \in
       {"read", "write", "query", "completion", "titleQuery", "titleList", "titleRead"}
==========================================================================
