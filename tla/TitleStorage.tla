---------------------------- MODULE TitleStorage -------------------------
(***************************************************************************)
(* The files of the title (src/interfaces/TitleStorage.cpp): a directory   *)
(* that somebody else fills is served by name, and the names that were     *)
(* found are remembered, in order, for the calls that take an index.       *)
(*                                                                         *)
(* A TsRequest is freed by its Release, without a look at the transfer     *)
(* that still points to it; the game of this model waits for the           *)
(* completion before it releases.                                          *)
(***************************************************************************)
EXTENDS Dispatcher, FiniteSets

CONSTANTS
  TitleNames,     \* file names that the game asks for
  UnsafeNames,    \* those with a separator or ".."
  MaxTitleCalls   \* bound: queries, reads, and changes of the directory

VARIABLES
  served,       \* the files in TitleStorageDir()
  knownNames,   \* g_Known
  tsRequest,    \* the one TsRequest: "none", "pending" or its State
  titleCalls

titleVars == <<served, knownNames, tsRequest, titleCalls>>

SafeName(name) == name \notin UnsafeNames

ServedFileExists(name) == SafeName(name) /\ name \in served

RememberLocked(name) ==
  knownNames' = IF name \in ToSet(knownNames) THEN knownNames ELSE Append(knownNames, name)

TitleCall == titleCalls < MaxTitleCalls /\ titleCalls' = titleCalls + 1

\* QueryFile, QueryFileList and DeleteCache act when they complete.
TitleQueryFile(name) ==
  /\ TitleCall
  /\ Post(<<[kind |-> "titleQuery", name |-> name]>>)
  /\ UNCHANGED <<served, knownNames, tsRequest, delayed, ready, draining>>

TitleQueryFileList ==
  /\ TitleCall
  /\ Post(<<[kind |-> "titleList"]>>)
  /\ UNCHANGED <<served, knownNames, tsRequest, delayed, ready, draining>>

TitleReadFile(name) ==
  /\ TitleCall /\ tsRequest = "none"
  /\ tsRequest' = "pending"
  /\ Post(<<[kind |-> "titleRead", name |-> name]>>)
  /\ UNCHANGED <<served, knownNames, delayed, ready, draining>>

\* MakeMetadata opens the file again: a name that is known may be gone.
TitleMetadataAtIndex(i) ==
  IF i \in DOMAIN knownNames /\ ServedFileExists(knownNames[i]) THEN "Success" ELSE "NotFound"

\* The answer of the data callback decides what the completion says.
RunTitleTask(said) ==
  /\ Work(<<>>)
  /\ LET t == Head(ready)
         exists == ServedFileExists(t.name) IN
     \/ /\ t.kind = "titleList"
        /\ UNCHANGED <<knownNames, tsRequest>>
     \/ /\ t.kind = "titleQuery"
        /\ IF exists THEN RememberLocked(t.name) ELSE UNCHANGED knownNames
        /\ UNCHANGED tsRequest
     \/ /\ t.kind = "titleRead"
        /\ IF exists THEN RememberLocked(t.name) ELSE UNCHANGED knownNames
        /\ tsRequest' = CASE ~exists -> "NotFound"
                          [] said = "Fail" -> "UnexpectedError"
                          [] said = "Cancel" -> "Canceled"
                          [] OTHER -> "Success"
  /\ UNCHANGED <<served, titleCalls>>

TitleRelease ==
  /\ tsRequest \notin {"none", "pending"}
  /\ tsRequest' = "none"
  /\ UNCHANGED <<served, knownNames, titleCalls, dispatchVars>>

\* Somebody adds a file to the directory or takes one away.
DirectoryChanges ==
  /\ TitleCall
  /\ \E name \in TitleNames :
       served' = IF name \in served THEN served \ {name} ELSE served \cup {name}
  /\ UNCHANGED <<knownNames, tsRequest, dispatchVars>>

TitleInit == served = TitleNames /\ knownNames = <<>> /\ tsRequest = "none" /\ titleCalls = 0

\* The title's variables in a process that has just started.
TitleForgotten ==
  knownNames' = <<>> /\ tsRequest' = "none" /\ UNCHANGED <<served, titleCalls>>
==========================================================================
