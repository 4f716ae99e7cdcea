------------------------ MODULE ArtifactPublication ------------------------
(***************************************************************************)
(* artifacts.py: publish_compile_bundle_v4, run by request threads of one  *)
(* process against one artifact directory.  Every publisher fills a        *)
(* directory of its own under a name no other has, and renames it to its   *)
(* compile_id in compiles/.                                                *)
(*                                                                         *)
(* The file system: programs see the cache.  When the machine stops, a     *)
(* name or a file is found afterwards in its last synced state or in any   *)
(* state it has had since; fsync of a file settles its data, fsync of a    *)
(* directory the names in it.  The function never syncs the directory      *)
(* compiles/ itself is in.                                                 *)
(***************************************************************************)
EXTENDS Naturals

CONSTANTS
    Publishers, \* the calls of publish_compile_bundle_v4
    CompileIds, \* the ids bundles carry; two bundles may carry the same
    NumFiles,   \* the files of a bundle: recallpack.json, PACK.md, trace.json
    NoId        \* no id yet

ASSUME FilesAreCounted == NumFiles \in Nat

VARIABLES
    step,     \* the system call each publisher makes next
    id,       \* the compile_id of its bundle
    reply,    \* what its caller was told
    root,     \* compiles/: whether it is there, and there to stay
    place,    \* the name of each publisher's directory, in the cache
    places,   \* the names it may be found under after the machine stopped
    file,     \* the files in it, in the cache
    files     \* the states they may be found in after the machine stopped

disk == <<root, place, places, file, files>>
publication == <<step, id, reply, disk>>

Files  == 1..NumFiles
Steps  == {"idle", "root", "temp", "syncTemp", "write", "syncFiles", "check",
           "rename", "syncFinal", "syncCompiles", "cleanup", "done"}
Places == {"nowhere", "temp", "final"}
States == {"none", "partial", "whole"}

Doing(p, s) == step[p] = s
Goto(p, s)  == step' = [step EXCEPT ![p] = s]

\* The call returns, or raises, with the answer its HTTP handler makes of it.
Answered(p, code) ==
    /\ step' = [step EXCEPT ![p] = "done"]
    /\ reply' = [reply EXCEPT ![p] = code]

\* final_dir exists.
Taken(c) == \E q \in Publishers : place[q] = "final" /\ id[q] = c

---------------------------------------------------------------------------
\* System calls

\* compiles/ and the names in it, as fsync of compiles/ leaves them.
MutSettled  == places
Settled     == [q \in Publishers |-> {place[q]}]

\* The call begins with a bundle that was validated, or ends there.
Validate(p) ==
    /\ Doing(p, "idle")
    /\ \/ \E c \in CompileIds :
            id' = [id EXCEPT ![p] = c] /\ Goto(p, "root") /\ UNCHANGED reply
       \/ Answered(p, 503) /\ UNCHANGED id
    /\ UNCHANGED disk

\* compiles_dir.mkdir(parents=True, exist_ok=True), _fsync_directory.
MakeRoot(p) ==
    /\ Doing(p, "root")
    /\ root' = IF root = "absent" THEN "unsynced" ELSE root
    /\ places' = Settled
    /\ Goto(p, "temp")
    /\ UNCHANGED <<id, reply, place, file, files>>

\* temp_dir.mkdir().
MakeTemp(p) ==
    /\ Doing(p, "temp")
    /\ place' = [place EXCEPT ![p] = "temp"]
    /\ places' = [places EXCEPT ![p] = @ \cup {"temp"}]
    /\ Goto(p, "syncTemp")
    /\ UNCHANGED <<id, reply, root, file, files>>

SyncTemp(p) ==
    /\ Doing(p, "syncTemp")
    /\ places' = Settled
    /\ Goto(p, "write")
    /\ UNCHANGED <<id, reply, root, place, file, files>>

\* path.open and the first bytes.
OpenFile(p) ==
    /\ Doing(p, "write")
    /\ \E f \in Files :
        /\ file[p][f] = "none"
        /\ \A g \in 1..(f - 1) : file[p][g] = "whole"
        /\ file' = [file EXCEPT ![p][f] = "partial"]
        /\ files' = [files EXCEPT ![p][f] = @ \cup {"partial", "whole"}]
    /\ UNCHANGED <<step, id, reply, root, place, places>>

\* What fsync leaves of a file: its data is there if its name is.
Synced(p, f) == files[p][f] \ {"partial"}

\* The last bytes, flush, and fsync of the file.
SyncFile(p) ==
    /\ Doing(p, "write")
    /\ \E f \in Files :
        /\ file[p][f] = "partial"
        /\ file' = [file EXCEPT ![p][f] = "whole"]
        /\ files' = [files EXCEPT ![p][f] = Synced(p, f)]
    /\ UNCHANGED <<step, id, reply, root, place, places>>

EndWriting(p) ==
    /\ Doing(p, "write")
    /\ \A f \in Files : file[p][f] = "whole"
    /\ Goto(p, "syncFiles")
    /\ UNCHANGED <<id, reply, disk>>

MutNamed(p) == files[p]

\* What fsync of a directory leaves of the files in it: their names stay.
Named(p) == [f \in Files |-> files[p][f] \ {"none"}]

\* _fsync_directory(temp_dir).
SyncFiles(p) ==
    /\ Doing(p, "syncFiles")
    /\ files' = [files EXCEPT ![p] = Named(p)]
    /\ Goto(p, "check")
    /\ UNCHANGED <<id, reply, root, place, places, file>>

\* final_dir.exists().
CheckFinal(p) ==
    /\ Doing(p, "check")
    /\ Goto(p, IF Taken(id[p]) THEN "cleanup" ELSE "rename")
    /\ UNCHANGED <<id, reply, disk>>

MutRenamable(p) == TRUE

\* os.rename does not replace a directory that has files.
Renamable(p) == ~Taken(id[p])

\* os.rename(temp_dir, final_dir).
Rename(p) ==
    /\ Doing(p, "rename")
    /\ Renamable(p)
    /\ place' = [place EXCEPT ![p] = "final"]
    /\ places' = [places EXCEPT ![p] = @ \cup {"final"}]
    /\ Goto(p, "syncFinal")
    /\ UNCHANGED <<id, reply, root, file, files>>

SyncFinal(p) ==
    /\ Doing(p, "syncFinal")
    /\ files' = [files EXCEPT ![p] = Named(p)]
    /\ Goto(p, "syncCompiles")
    /\ UNCHANGED <<id, reply, root, place, places, file>>

\* The last sync, and the call returns its manifest.
SyncCompiles(p) ==
    /\ Doing(p, "syncCompiles")
    /\ places' = Settled
    /\ Answered(p, 200)
    /\ UNCHANGED <<id, root, place, file, files>>

---------------------------------------------------------------------------
\* Errors and crashes

\* A system call raises OSError, os.rename because of a directory that came
\* after the check among them.  temp_dir is None once it was renamed.
Fail(p) ==
    /\ step[p] \notin {"idle", "cleanup", "done"}
    /\ IF place[p] = "temp"
       THEN Goto(p, "cleanup") /\ UNCHANGED reply
       ELSE Answered(p, 503)
    /\ UNCHANGED <<id, disk>>

\* The directories there are once p has removed its own.
Removed(p) == [place EXCEPT ![p] = "nowhere"]

\* shutil.rmtree(temp_dir); raising OSError, it leaves some of the files and
\* the caller without an answer.
Cleanup(p) ==
    /\ Doing(p, "cleanup")
    /\ \E gone \in SUBSET Files :
        /\ file' = [file EXCEPT ![p] = [f \in Files |-> IF f \in gone THEN "none" ELSE @[f]]]
        /\ files' = [files EXCEPT ![p] =
                [f \in Files |-> IF f \in gone THEN @[f] \cup {"none"} ELSE @[f]]]
        /\ \/ gone = Files
              /\ place' = Removed(p)
              /\ places' = [q \in Publishers |-> places[q] \cup {place'[q]}]
              /\ Answered(p, 503)
           \/ UNCHANGED <<place, places, reply>> /\ Goto(p, "done")
    /\ UNCHANGED <<id, root>>

\* The process is killed: its calls end without an answer.
Ended == [p \in Publishers |-> IF Doing(p, "idle") THEN "idle" ELSE "done"]

Kill ==
    /\ \E p \in Publishers : step[p] \notin {"idle", "done"}
    /\ step' = Ended
    /\ UNCHANGED <<id, reply, disk>>

\* The machine stops: of every name and file one of its possible states is
\* found, and with compiles/ everything in it may be gone.
Stop ==
    /\ step' = Ended
    /\ \/ /\ root' = IF root = "unsynced" THEN "synced" ELSE root
          /\ place' \in [Publishers -> Places]
          /\ \A p \in Publishers : place'[p] \in places[p]
       \/ /\ root = "unsynced" /\ root' = "absent"
          /\ place' = [p \in Publishers |-> "nowhere"]
    /\ places' = [p \in Publishers |-> {place'[p]}]
    /\ file' \in [Publishers -> [Files -> States]]
    /\ \A p \in Publishers, f \in Files : file'[p][f] \in files[p][f]
    /\ files' = [p \in Publishers |-> [f \in Files |-> {file'[p][f]}]]
    /\ UNCHANGED <<id, reply>>

Init ==
    /\ step = [p \in Publishers |-> "idle"]
    /\ id = [p \in Publishers |-> NoId]
    /\ reply = [p \in Publishers |-> 0]
    /\ root \in {"absent", "synced"}
    /\ place = [p \in Publishers |-> "nowhere"]
    /\ places = [p \in Publishers |-> {"nowhere"}]
    /\ file = [p \in Publishers |-> [f \in Files |-> "none"]]
    /\ files = [p \in Publishers |-> [f \in Files |-> {"none"}]]

Publish(p) ==
    \/ Validate(p) \/ MakeRoot(p) \/ MakeTemp(p) \/ SyncTemp(p)
    \/ OpenFile(p) \/ SyncFile(p) \/ EndWriting(p) \/ SyncFiles(p)
    \/ CheckFinal(p) \/ Rename(p) \/ SyncFinal(p) \/ SyncCompiles(p)
    \/ Fail(p) \/ Cleanup(p)

Next == (\E p \in Publishers : Publish(p)) \/ Kill \/ Stop

Spec == Init /\ [][Next]_publication

---------------------------------------------------------------------------
\* Properties

\* The types; and what the programs see of a name or a file is among the
\* states it may be found in.
PublicationTypeOK ==
    /\ step \in [Publishers -> Steps]
    /\ id \in [Publishers -> CompileIds \cup {NoId}]
    /\ reply \in [Publishers -> {0, 200, 503}]
    /\ root \in {"absent", "unsynced", "synced"}
    /\ place \in [Publishers -> Places]
    /\ places \in [Publishers -> SUBSET Places]
    /\ file \in [Publishers -> [Files -> States]]
    /\ files \in [Publishers -> [Files -> SUBSET States]]
    /\ \A p \in Publishers : place[p] \in places[p]
    /\ \A p \in Publishers, f \in Files : file[p][f] \in files[p][f]

\* Whoever finds a directory under a compile_id finds all of its files in
\* it, whatever failed or stopped before.
FinalIsWhole ==
    \A p \in Publishers : place[p] = "final" => \A f \in Files : file[p][f] = "whole"

\* No publication replaces another: of the directories made for one
\* compile_id, one at most has ever that name.
OneFinalPerId ==
    \A p, q \in Publishers :
        place[p] = "final" /\ place[q] = "final" /\ id[p] = id[q] => p = q

\* A bundle whose caller was answered 200 is published when the answer is
\* sent and stays, through every failure of others, kill and stop of the
\* machine; only compiles/ itself may still be lost, if it was new.
AnsweredIsKept ==
    [][\A p \in Publishers :
        reply'[p] = 200 /\ (reply[p] = 200 => place[p] = "final") =>
            place'[p] = "final" \/ (root = "unsynced" /\ root' = "absent")]_publication

=============================================================================
