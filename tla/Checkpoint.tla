----------------------------- MODULE Checkpoint -----------------------------
(***************************************************************************)
(* Resume points kept in files (connector/checkpoint.go): one file per     *)
(* tenant and source, written beside itself, synced and renamed over.      *)
(*                                                                         *)
(* A name is a sequence of characters, each a plain one or not.  What a    *)
(* power cut leaves is modelled from what the code asks of the file        *)
(* system: the bytes of a file that was not synced may be missing, and     *)
(* renames that no directory sync followed may be undone, the newest first.*)
(***************************************************************************)
EXTENDS Integers, Sequences, FiniteSets

CONSTANTS
  CkChars,     \* the characters a name may have
  CkSources,   \* the pairs <<tenant, source>>, each name a sequence of characters
  CkPlain,     \* the characters a file name may hold: letters, digits, the hyphen
  CkMaxSaves,  \* bound on the saves of one source
  CkMaxCuts    \* bound on crashes and power cuts

ASSUME CkAssumption ==
  /\ "-" \in CkPlain
  /\ \A s \in CkSources : s = <<s[1], s[2]>> /\ s[1] \in Seq(CkChars) /\ s[2] \in Seq(CkChars)

VARIABLES
  ckFiles,    \* path -> what a reader of it finds
  ckOld,      \* path -> what it may still hold after a power cut
  ckSave,     \* the save that holds the mutex
  ckNext,     \* source -> the next value it will save
  ckDone,     \* source -> the newest value whose Save returned nil
  ckCuts      \* crashes so far

ckVars == <<ckFiles, ckOld, ckSave, ckNext, ckDone, ckCuts>>

\* escape: whatever is not a plain character becomes a hyphen, and the empty
\* name becomes one.
escape(name) == IF name = <<>> THEN <<"-">>
                ELSE [i \in DOMAIN name |-> IF name[i] \in CkPlain THEN name[i] ELSE "-"]

\* path: the file of a tenant and source.  The underscore between the two
\* survives no escaping, so the halves never run together.
path(s) == <<escape(s[1]), escape(s[2])>>
Paths == {path(s) : s \in CkSources}

\* What checkpointFile holds, and a file that lost its bytes.
content(s, v) == [whole |-> TRUE, src |-> s, value |-> v]
torn(f) == [f EXCEPT !.whole = FALSE]
\* No file, and no save under way.
noFile == content(<<>>, 0)
ckIdle == [file |-> noFile, at |-> "idle"]

CkInit ==
  /\ ckFiles = [p \in Paths |-> noFile] /\ ckOld = [p \in Paths |-> {noFile}]
  /\ ckSave = ckIdle
  /\ ckNext = [s \in CkSources |-> 1] /\ ckDone = [s \in CkSources |-> 0]
  /\ ckCuts = 0

\* Save takes the mutex and creates its temporary file.
CkSaveBegins(s) ==
  /\ ckSave = ckIdle /\ ckNext[s] <= CkMaxSaves
  /\ ckSave' = [file |-> content(s, ckNext[s]), at |-> "created"]
  /\ ckNext' = [ckNext EXCEPT ![s] = @ + 1]
  /\ UNCHANGED <<ckFiles, ckOld, ckDone, ckCuts>>

\* Write, Sync and Close, each of which may fail; a failure removes the
\* temporary file and leaves the old checkpoint.
ckSteps == [created |-> "written", written |-> "synced", synced |-> "closed"]
CkSaveStep ==
  /\ ckSave.at \in DOMAIN ckSteps
  /\ \/ ckSave' = [ckSave EXCEPT !.at = ckSteps[ckSave.at]]
     \/ ckSave' = ckIdle
  /\ UNCHANGED <<ckFiles, ckOld, ckNext, ckDone, ckCuts>>

\* Rename puts the file in place and Save returns.
CkRename ==
  /\ ckSave.at = "closed"
  /\ LET p == path(ckSave.file.src)
     IN /\ ckFiles' = [ckFiles EXCEPT ![p] = ckSave.file]
        /\ ckOld' = [ckOld EXCEPT ![p] = @ \union {ckSave.file}]
  /\ ckDone' = [ckDone EXCEPT ![ckSave.file.src] = ckSave.file.value]
  /\ ckSave' = ckIdle
  /\ UNCHANGED <<ckNext, ckCuts>>

\* The process dies; a temporary file it leaves behind is read by nobody.
CkKill ==
  /\ ckCuts < CkMaxCuts /\ ckCuts' = ckCuts + 1
  /\ ckSave' = ckIdle
  /\ UNCHANGED <<ckFiles, ckOld, ckNext, ckDone>>

\* The power goes: every path holds one of the files renamed over it.
CkPowerCut ==
  /\ ckCuts < CkMaxCuts /\ ckCuts' = ckCuts + 1
  /\ \E f \in [Paths -> UNION {ckOld[p] : p \in Paths}] :
       /\ \A p \in Paths : f[p] \in ckOld[p]
       /\ ckFiles' = f
       /\ ckOld' = [p \in Paths |-> {f[p]}]
       /\ ckDone' = [s \in CkSources |-> IF f[path(s)].value < ckDone[s] THEN f[path(s)].value ELSE ckDone[s]]
  /\ ckSave' = ckIdle
  /\ UNCHANGED ckNext

\* Load: a source that never ran starts from nothing, and what a file says of
\* whose it is plays no part.
Load(s) == ckFiles[path(s)]

CkNext == (\E s \in CkSources : CkSaveBegins(s)) \/ CkSaveStep \/ CkRename \/ CkKill \/ CkPowerCut

CkSpec == CkInit /\ [][CkNext]_ckVars

-----------------------------------------------------------------------------
\* A crash in the middle of a save leaves either the old checkpoint or the new
\* one: what a load finds is never a torn file and never older than a save that
\* returned, unless the power went and took the rename with it, or a source
\* with a name like it has written over it (Save).
LeavesOldOrNew ==
  \A s \in CkSources :
    Load(s).whole /\ (Load(s).src \in {s, noFile.src} => Load(s).value >= ckDone[s])

\* Two names that differ only in characters a file name may not hold, or in a
\* hyphen for one; no name at all is filed as a hyphen.
spelled(name) == IF name = <<>> THEN <<"-">> ELSE name
alike(m, n) ==
  /\ Len(m) = Len(n)
  /\ \A i \in DOMAIN m : m[i] = n[i] \/ {m[i], n[i]} \cap (CkPlain \ {"-"}) = {}

\* A source resumes from a cursor it saved itself, or from one of a source
\* whose names are alike: escape says that the mapping "is not reversible and
\* does not need to be: the file records the tenant and source it belongs to
\* inside itself", but Load does not compare them (escape, path, Load).
ResumesOwn ==
  \A s \in CkSources : Load(s) # noFile => \A h \in 1..2 : alike(spelled(Load(s).src[h]), spelled(s[h]))

=============================================================================
