------------------------- MODULE PublicationProofs -------------------------
(***************************************************************************)
(* What ArtifactPublication promises holds for any publishers, compile_ids *)
(* and number of files.  The inductive invariant says how far each call    *)
(* has come with its directory, as programs see it and as the machine      *)
(* might find it again.                                                    *)
(***************************************************************************)
EXTENDS ArtifactPublication, TLAPS

\* The steps before the temporary directory, and those that work in it.
Before  == {"idle", "root", "temp"}
Working == {"syncTemp", "write", "syncFiles", "check", "rename", "cleanup"}

\* Where the directory of a call is.
PlaceKnown(p) ==
    /\ place[p] \in places[p]
    /\ step[p] \in Before => places[p] = {"nowhere"}
    /\ step[p] \in Working => place[p] = "temp"
    /\ step[p] \in {"syncFinal", "syncCompiles"} => place[p] = "final"
    /\ "final" \in places[p] => place[p] = "final"

\* What is in it.
FileKnown(p, f) ==
    /\ file[p][f] \in files[p][f]
    /\ file[p][f] = "whole" => "partial" \notin files[p][f]
    /\ step[p] \in Before \cup {"syncTemp"} => files[p][f] = {"none"}
    /\ step[p] = "write" /\ file[p][f] = "partial" => "whole" \in files[p][f]
    /\ step[p] = "syncFiles" => file[p][f] = "whole"
    /\ step[p] \in {"check", "rename"} \/ "final" \in places[p] => files[p][f] = {"whole"}

\* What was answered.
AnswerKnown(p) == reply[p] = 200 =>
    /\ step[p] = "done"
    /\ place[p] = "final" => places[p] = {"final"}

Known(p) == PlaceKnown(p) /\ (\A f \in Files : FileKnown(p, f)) /\ AnswerKnown(p)

\* The types: each part of the state by itself.
Types ==
    /\ step \in [Publishers -> Steps]
    /\ id \in [Publishers -> CompileIds \cup {NoId}]
    /\ reply \in [Publishers -> {0, 200, 503}]
    /\ root \in {"absent", "unsynced", "synced"}

PlaceTypes ==
    /\ place \in [Publishers -> Places]
    /\ places \in [Publishers -> SUBSET Places]

FileTypes ==
    /\ file \in [Publishers -> [Files -> States]]
    /\ files \in [Publishers -> [Files -> SUBSET States]]

Inv ==
    /\ Types /\ PlaceTypes /\ FileTypes
    /\ \A p \in Publishers : Known(p)
    /\ OneFinalPerId

LEMMA InvInit == Init => Inv
BY DEF Init, Inv, Types, PlaceTypes, FileTypes, Known, PlaceKnown, FileKnown, AnswerKnown,
       OneFinalPerId, Steps, Places, States, Before, Working

\* The invariant is the type invariant and more.
LEMMA InvTypes == Inv => PublicationTypeOK
BY DEF Inv, Types, PlaceTypes, FileTypes, Known, PlaceKnown, FileKnown, PublicationTypeOK

---------------------------------------------------------------------------
\* Types

LEMMA TypesStep ==
    ASSUME Types, [Next]_publication
    PROVE  Types'
<1> USE DEF Types, Steps
<1>1. ASSUME NEW p \in Publishers, NEW s \in Steps, Goto(p, s)
      PROVE  step' \in [Publishers -> Steps]
  BY <1>1 DEF Goto
<1>2. ASSUME NEW p \in Publishers, NEW code \in {0, 200, 503}, Answered(p, code)
      PROVE  step' \in [Publishers -> Steps] /\ reply' \in [Publishers -> {0, 200, 503}]
  BY <1>2 DEF Answered
<1>3. CASE UNCHANGED publication
  BY <1>3 DEF publication, disk
<1>4. ASSUME NEW p \in Publishers, Publish(p)
      PROVE  Types'
  <2>1. CASE Validate(p)
    <3>1. CASE Answered(p, 503) /\ UNCHANGED id
      BY <1>2, <2>1, <3>1 DEF Validate, disk
    <3>2. ASSUME NEW c \in CompileIds, id' = [id EXCEPT ![p] = c], Goto(p, "root"), UNCHANGED reply
          PROVE  Types'
      BY <1>1, <2>1, <3>2 DEF Validate, disk
    <3> QED BY <2>1, <3>1, <3>2 DEF Validate
  <2>2. CASE MakeRoot(p) \/ MakeTemp(p) \/ SyncTemp(p)
    BY <1>1, <2>2 DEF MakeRoot, MakeTemp, SyncTemp
  <2>3. CASE OpenFile(p) \/ SyncFile(p)
    BY <2>3 DEF OpenFile, SyncFile
  <2>4. CASE EndWriting(p) \/ SyncFiles(p) \/ CheckFinal(p)
    BY <1>1, <2>4 DEF EndWriting, SyncFiles, CheckFinal, disk
  <2>5. CASE Rename(p) \/ SyncFinal(p)
    BY <1>1, <2>5 DEF Rename, SyncFinal
  <2>6. CASE SyncCompiles(p)
    BY <1>2, <2>6 DEF SyncCompiles
  <2>7. CASE Fail(p)
    <3>1. CASE place[p] = "temp"
      BY <1>1, <2>7, <3>1 DEF Fail, disk
    <3>2. CASE place[p] # "temp"
      BY <1>2, <2>7, <3>2 DEF Fail, disk
    <3> QED BY <3>1, <3>2
  <2>8. CASE Cleanup(p)
    <3>1. CASE Answered(p, 503)
      BY <1>2, <2>8, <3>1 DEF Cleanup
    <3>2. CASE Goto(p, "done") /\ UNCHANGED reply
      BY <1>1, <2>8, <3>2 DEF Cleanup
    <3> QED BY <2>8, <3>1, <3>2 DEF Cleanup
  <2> QED BY <1>4, <2>1, <2>2, <2>3, <2>4, <2>5, <2>6, <2>7, <2>8 DEF Publish
<1>5. CASE Kill
  BY <1>5 DEF Kill, Ended, disk
<1>6. CASE Stop
  BY <1>6 DEF Stop, Ended
<1> QED BY <1>3, <1>4, <1>5, <1>6 DEF Next

LEMMA PlaceTypesStep ==
    ASSUME Types, PlaceTypes, [Next]_publication
    PROVE  PlaceTypes'
<1> USE DEF PlaceTypes, Places
<1>1. CASE UNCHANGED publication
  BY <1>1 DEF publication, disk
<1>2. ASSUME places' = Settled, UNCHANGED place
      PROVE  PlaceTypes'
  BY <1>2 DEF Settled
<1>3. ASSUME NEW p \in Publishers, Publish(p)
      PROVE  PlaceTypes'
  <2>1. CASE MakeRoot(p) \/ SyncTemp(p) \/ SyncCompiles(p)
    BY <1>2, <2>1 DEF MakeRoot, SyncTemp, SyncCompiles
  <2>2. CASE MakeTemp(p)
    BY <2>2 DEF MakeTemp
  <2>3. CASE Rename(p)
    BY <2>3 DEF Rename
  <2>4. CASE UNCHANGED <<place, places>>
    BY <2>4
  <2>5. CASE Cleanup(p)
    <3>1. CASE place' = Removed(p) /\ places' = [q \in Publishers |-> places[q] \cup {place'[q]}]
      <4>1. place' \in [Publishers -> Places]
        BY <3>1 DEF Removed
      <4> QED BY <3>1, <4>1
    <3> QED BY <2>4, <2>5, <3>1 DEF Cleanup
  <2>6. CASE Validate(p) \/ OpenFile(p) \/ SyncFile(p) \/ EndWriting(p) \/ SyncFiles(p)
             \/ CheckFinal(p) \/ SyncFinal(p) \/ Fail(p)
    BY <2>4, <2>6 DEF Validate, OpenFile, SyncFile, EndWriting, SyncFiles, CheckFinal,
                      SyncFinal, Fail, disk
  <2> QED BY <1>3, <2>1, <2>2, <2>3, <2>5, <2>6 DEF Publish
<1>4. CASE Kill
  BY <1>4 DEF Kill, disk
<1>5. CASE Stop
  BY <1>5 DEF Stop
<1> QED BY <1>1, <1>3, <1>4, <1>5 DEF Next

LEMMA FileTypesStep ==
    ASSUME FileTypes, [Next]_publication
    PROVE  FileTypes'
<1> USE DEF FileTypes, States
<1>1. CASE UNCHANGED <<file, files>>
  BY <1>1
<1>2. ASSUME NEW p \in Publishers, files' = [files EXCEPT ![p] = Named(p)], UNCHANGED file
      PROVE  FileTypes'
  <2>1. Named(p) \in [Files -> SUBSET States]
    BY DEF Named
  <2> QED BY <1>2, <2>1
<1>3. ASSUME NEW p \in Publishers, Publish(p)
      PROVE  FileTypes'
  <2>1. CASE OpenFile(p)
    BY <2>1 DEF OpenFile
  <2>2. CASE SyncFile(p)
    <3>1. PICK f \in Files :
            /\ file' = [file EXCEPT ![p][f] = "whole"]
            /\ files' = [files EXCEPT ![p][f] = Synced(p, f)]
      BY <2>2 DEF SyncFile
    <3>2. Synced(p, f) \in SUBSET States
      BY DEF Synced
    <3> QED BY <3>1, <3>2
  <2>3. CASE SyncFiles(p) \/ SyncFinal(p)
    BY <1>2, <2>3 DEF SyncFiles, SyncFinal
  <2>4. CASE Cleanup(p)
    <3>1. PICK gone \in SUBSET Files :
            /\ file' = [file EXCEPT ![p] = [f \in Files |-> IF f \in gone THEN "none" ELSE @[f]]]
            /\ files' = [files EXCEPT ![p] =
                    [f \in Files |-> IF f \in gone THEN @[f] \cup {"none"} ELSE @[f]]]
      BY <2>4 DEF Cleanup
    <3>2. [f \in Files |-> IF f \in gone THEN "none" ELSE file[p][f]] \in [Files -> States]
      OBVIOUS
    <3>3. [f \in Files |-> IF f \in gone THEN files[p][f] \cup {"none"} ELSE files[p][f]]
            \in [Files -> SUBSET States]
      OBVIOUS
    <3> QED BY <3>1, <3>2, <3>3
  <2>5. CASE Validate(p) \/ MakeRoot(p) \/ MakeTemp(p) \/ SyncTemp(p) \/ EndWriting(p)
             \/ CheckFinal(p) \/ Rename(p) \/ SyncCompiles(p) \/ Fail(p)
    BY <1>1, <2>5 DEF Validate, MakeRoot, MakeTemp, SyncTemp, EndWriting, CheckFinal, Rename,
                      SyncCompiles, Fail, disk
  <2> QED BY <1>3, <2>1, <2>2, <2>3, <2>4, <2>5 DEF Publish
<1>4. CASE Kill
  BY <1>1, <1>4 DEF Kill, disk
<1>5. CASE Stop
  <2>1. file' \in [Publishers -> [Files -> States]]
    BY <1>5 DEF Stop
  <2>2. files' = [p \in Publishers |-> [f \in Files |-> {file'[p][f]}]]
    BY <1>5 DEF Stop
  <2> QED BY <2>1, <2>2
<1>6. CASE UNCHANGED publication
  BY <1>1, <1>6 DEF publication, disk
<1> QED BY <1>3, <1>4, <1>5, <1>6 DEF Next

---------------------------------------------------------------------------
\* The other calls

\* A step of one call leaves what another has alone, but may settle where it
\* is found.
LEMMA OthersAlone ==
    ASSUME Inv, NEW p \in Publishers, NEW q \in Publishers, p # q, Publish(p)
    PROVE  /\ step'[q] = step[q] /\ id'[q] = id[q] /\ reply'[q] = reply[q]
           /\ place'[q] = place[q] /\ file'[q] = file[q] /\ files'[q] = files[q]
           /\ places'[q] = places[q] \/ places'[q] = {place[q]}
<1> USE DEF Inv, Types, PlaceTypes, FileTypes
<1>1. CASE Validate(p) \/ Fail(p)
  BY <1>1 DEF Validate, Fail, Goto, Answered, disk
<1>2. CASE MakeRoot(p) \/ SyncTemp(p) \/ SyncCompiles(p)
  BY <1>2 DEF MakeRoot, SyncTemp, SyncCompiles, Settled, Goto, Answered
<1>3. CASE MakeTemp(p) \/ Rename(p)
  BY <1>3 DEF MakeTemp, Rename, Goto
<1>4. CASE OpenFile(p) \/ SyncFile(p)
  BY <1>4 DEF OpenFile, SyncFile
<1>5. CASE EndWriting(p) \/ CheckFinal(p)
  BY <1>5 DEF EndWriting, CheckFinal, Goto, disk
<1>6. CASE SyncFiles(p) \/ SyncFinal(p)
  BY <1>6 DEF SyncFiles, SyncFinal, Goto
<1>7. CASE Cleanup(p)
  <2>1. place[q] \in places[q]
    BY DEF Known, PlaceKnown
  <2>2. file'[q] = file[q] /\ files'[q] = files[q] /\ id'[q] = id[q]
    BY <1>7 DEF Cleanup
  <2>3. CASE Answered(p, 503) /\ place' = Removed(p)
             /\ places' = [r \in Publishers |-> places[r] \cup {place'[r]}]
    BY <2>1, <2>2, <2>3 DEF Answered, Removed
  <2>4. CASE UNCHANGED <<place, places, reply>> /\ Goto(p, "done")
    BY <2>2, <2>4 DEF Goto
  <2> QED BY <1>7, <2>3, <2>4 DEF Cleanup
<1> QED BY <1>1, <1>2, <1>3, <1>4, <1>5, <1>6, <1>7 DEF Publish

LEMMA OthersKnown ==
    ASSUME Inv, NEW p \in Publishers, NEW q \in Publishers, p # q, Publish(p)
    PROVE  Known(q)'
<1>1. Known(q)
  BY DEF Inv
<1>2. PlaceKnown(q)'
  BY <1>1, OthersAlone DEF Known, PlaceKnown
<1>3. ASSUME NEW f \in Files PROVE FileKnown(q, f)'
  BY <1>1, OthersAlone DEF Known, FileKnown, PlaceKnown, Before
<1>4. AnswerKnown(q)'
  BY <1>1, OthersAlone DEF Known, AnswerKnown
<1> QED BY <1>2, <1>3, <1>4 DEF Known

---------------------------------------------------------------------------
\* The call itself

LEMMA OwnPlace ==
    ASSUME Inv, NEW p \in Publishers, Publish(p)
    PROVE  PlaceKnown(p)'
<1> USE DEF Inv, Types, PlaceTypes, Known, PlaceKnown, Before, Working, Steps
<1>1. CASE Validate(p)
  BY <1>1 DEF Validate, Doing, Goto, Answered, disk
<1>2. CASE MakeRoot(p) \/ SyncTemp(p) \/ SyncCompiles(p)
  BY <1>2 DEF MakeRoot, SyncTemp, SyncCompiles, Settled, Doing, Goto, Answered
<1>3. CASE MakeTemp(p) \/ Rename(p)
  BY <1>3 DEF MakeTemp, Rename, Doing, Goto
<1>4. CASE OpenFile(p) \/ SyncFile(p)
  BY <1>4 DEF OpenFile, SyncFile
<1>5. CASE EndWriting(p) \/ CheckFinal(p)
  BY <1>5 DEF EndWriting, CheckFinal, Doing, Goto, disk
<1>6. CASE SyncFiles(p) \/ SyncFinal(p)
  BY <1>6 DEF SyncFiles, SyncFinal, Doing, Goto
<1>7. CASE Fail(p)
  BY <1>7 DEF Fail, Goto, Answered, disk
<1>8. CASE Cleanup(p)
  <2>1. CASE Answered(p, 503) /\ place' = Removed(p)
             /\ places' = [q \in Publishers |-> places[q] \cup {place'[q]}]
    BY <1>8, <2>1 DEF Cleanup, Doing, Answered, Removed
  <2>2. CASE UNCHANGED <<place, places, reply>> /\ Goto(p, "done")
    BY <2>2 DEF Goto
  <2> QED BY <1>8, <2>1, <2>2 DEF Cleanup
<1> QED BY <1>1, <1>2, <1>3, <1>4, <1>5, <1>6, <1>7, <1>8 DEF Publish

LEMMA OwnFiles ==
    ASSUME Inv, NEW p \in Publishers, Publish(p), NEW f \in Files
    PROVE  FileKnown(p, f)'
<1>1. Types /\ PlaceTypes /\ FileTypes /\ PlaceKnown(p) /\ FileKnown(p, f)
  BY DEF Inv, Known
<1> USE <1>1 DEF Types, PlaceTypes, FileTypes, PlaceKnown, FileKnown, Before, Working, States
<1>2. CASE Validate(p)
  BY <1>2 DEF Validate, Doing, Goto, Answered, disk
<1>3. CASE MakeRoot(p) \/ SyncTemp(p) \/ SyncCompiles(p)
  <2>1. places'[p] = {place[p]} /\ UNCHANGED <<file, files>>
    BY <1>3 DEF MakeRoot, SyncTemp, SyncCompiles, Settled
  <2>2. step'[p] \in {"temp", "write", "done"}
    BY <1>3 DEF MakeRoot, SyncTemp, SyncCompiles, Goto, Answered
  <2>3. step'[p] \in {"temp", "write"} => step[p] \in {"root", "syncTemp"}
    BY <1>3 DEF MakeRoot, SyncTemp, SyncCompiles, Goto, Answered, Doing
  <2> QED BY <2>1, <2>2, <2>3
<1>4. CASE MakeTemp(p) \/ Rename(p)
  BY <1>4 DEF MakeTemp, Rename, Doing, Goto
<1>5. CASE OpenFile(p)
  BY <1>5 DEF OpenFile, Doing
<1>6. CASE SyncFile(p)
  BY <1>6 DEF SyncFile, Synced, Doing
<1>7. CASE EndWriting(p) \/ CheckFinal(p)
  BY <1>7 DEF EndWriting, CheckFinal, Doing, Goto, disk
<1>8. CASE SyncFiles(p) \/ SyncFinal(p)
  BY <1>8 DEF SyncFiles, SyncFinal, Named, Doing, Goto
<1>9. CASE Fail(p)
  BY <1>9 DEF Fail, Goto, Answered, disk
<1>10. CASE Cleanup(p)
  <2>1. PICK gone \in SUBSET Files :
          /\ file' = [file EXCEPT ![p] = [g \in Files |-> IF g \in gone THEN "none" ELSE @[g]]]
          /\ files' = [files EXCEPT ![p] =
                  [g \in Files |-> IF g \in gone THEN @[g] \cup {"none"} ELSE @[g]]]
    BY <1>10 DEF Cleanup
  <2>2. \/ file'[p][f] = file[p][f] /\ files'[p][f] = files[p][f]
        \/ file'[p][f] = "none" /\ files'[p][f] = files[p][f] \cup {"none"}
    BY <2>1
  <2>3. step'[p] = "done"
    BY <1>10 DEF Cleanup, Goto, Answered
  <2>4. "final" \notin places[p] /\ "final" \notin places'[p]
    <3>1. CASE place' = Removed(p) /\ places' = [q \in Publishers |-> places[q] \cup {place'[q]}]
      BY <1>10, <3>1 DEF Cleanup, Doing, Removed
    <3>2. CASE UNCHANGED <<place, places>>
      BY <1>10, <3>2 DEF Cleanup, Doing
    <3> QED BY <1>10, <3>1, <3>2 DEF Cleanup
  <2> QED BY <2>2, <2>3, <2>4
<1> QED BY <1>2, <1>3, <1>4, <1>5, <1>6, <1>7, <1>8, <1>9, <1>10 DEF Publish

LEMMA OwnAnswer ==
    ASSUME Inv, NEW p \in Publishers, Publish(p)
    PROVE  AnswerKnown(p)'
<1>1. Types /\ PlaceTypes /\ AnswerKnown(p)
  BY DEF Inv, Known
<1> USE <1>1 DEF Types, PlaceTypes, AnswerKnown
<1>2. CASE SyncCompiles(p)
  BY <1>2 DEF SyncCompiles, Settled, Answered
<1>3. CASE Validate(p) \/ Fail(p)
  BY <1>3 DEF Validate, Fail, Doing, Goto, Answered
<1>4. CASE Cleanup(p)
  BY <1>4 DEF Cleanup, Doing, Goto, Answered
<1>5. CASE MakeRoot(p) \/ MakeTemp(p) \/ SyncTemp(p) \/ OpenFile(p) \/ SyncFile(p)
           \/ EndWriting(p) \/ SyncFiles(p) \/ CheckFinal(p) \/ Rename(p) \/ SyncFinal(p)
  <2>1. step[p] # "done" /\ UNCHANGED reply
    BY <1>5 DEF MakeRoot, MakeTemp, SyncTemp, OpenFile, SyncFile, EndWriting, SyncFiles,
                CheckFinal, Rename, SyncFinal, Doing
  <2> QED BY <2>1
<1> QED BY <1>2, <1>3, <1>4, <1>5 DEF Publish

---------------------------------------------------------------------------
\* Crashes

LEMMA KillKnown ==
    ASSUME Inv, Kill, NEW p \in Publishers
    PROVE  Known(p)'
<1>1. step'[p] = step[p] \/ step'[p] = "done"
  BY DEF Kill, Ended, Doing, Inv, Types
<1> QED BY <1>1 DEF Kill, disk, Inv, Known, PlaceKnown, FileKnown, AnswerKnown, Before, Working

\* Wherever a directory is found, what is found there was already known.
LEMMA StopFinds ==
    ASSUME Inv, Stop, NEW p \in Publishers
    PROVE  /\ place'[p] = "final" => place[p] = "final" /\ "final" \in places[p]
           /\ places'[p] = {place'[p]}
           /\ \A f \in Files : file'[p][f] \in files[p][f] /\ files'[p][f] = {file'[p][f]}
<1>1. place'[p] = "nowhere" \/ place'[p] \in places[p]
  BY DEF Stop
<1>2. PlaceKnown(p)
  BY DEF Inv, Known
<1> QED BY <1>1, <1>2 DEF Stop, PlaceKnown

LEMMA StopKnown ==
    ASSUME Inv, Stop, NEW p \in Publishers
    PROVE  Known(p)'
<1>1. Known(p)
  BY DEF Inv
<1>2. /\ step'[p] \in {"idle", "done"} /\ (step'[p] = "idle" => step[p] = "idle")
      /\ (step[p] = "done" => step'[p] = "done")
  BY DEF Stop, Ended, Doing, Inv, Types
<1>3. step[p] = "idle" => place'[p] = "nowhere"
  BY <1>1 DEF Stop, Known, PlaceKnown, Before
<1>4. PlaceKnown(p)'
  BY <1>2, <1>3, StopFinds DEF PlaceKnown, Before, Working
<1>5. ASSUME NEW f \in Files PROVE FileKnown(p, f)'
  BY <1>1, <1>2, StopFinds DEF FileKnown, Known, Before
<1>6. AnswerKnown(p)'
  BY <1>1, <1>2, StopFinds DEF AnswerKnown, Known, Stop
<1> QED BY <1>4, <1>5, <1>6 DEF Known

---------------------------------------------------------------------------
\* One directory per compile_id

LEMMA OneFinalStep ==
    ASSUME Inv, [Next]_publication
    PROVE  OneFinalPerId'
<1> SUFFICES ASSUME NEW p \in Publishers, NEW q \in Publishers, p # q,
                    place'[p] = "final", place'[q] = "final", id'[p] = id'[q]
             PROVE  FALSE
  BY DEF OneFinalPerId
<1>1. ~(place[p] = "final" /\ place[q] = "final" /\ id[p] = id[q])
  BY DEF Inv, OneFinalPerId
<1>2. ASSUME NEW r \in Publishers, NEW s \in Publishers, r # s, Publish(r),
             place'[r] = "final", place'[s] = "final", id'[r] = id'[s],
             ~(place[r] = "final" /\ place[s] = "final" /\ id[r] = id[s])
      PROVE  FALSE
  <2>1. id'[s] = id[s] /\ place[s] = "final"
    BY <1>2, OthersAlone
  <2>2. CASE Rename(r)
    BY <1>2, <2>1, <2>2 DEF Rename, Renamable, Taken
  <2>3. CASE Validate(r) \/ MakeTemp(r) \/ Cleanup(r)
    <3>1. place[r] # "final"
      BY <2>3 DEF Validate, MakeTemp, Cleanup, Doing, Inv, Known, PlaceKnown, Before, Working,
                  PlaceTypes
    <3>2. place'[r] # "final"
      BY <2>3, <3>1 DEF Validate, MakeTemp, Cleanup, Removed, Inv, PlaceTypes, disk
    <3> QED BY <1>2, <3>2
  <2>4. CASE UNCHANGED <<place, id>>
    BY <1>2, <2>1, <2>4
  <2> QED BY <1>2, <2>2, <2>3, <2>4 DEF Publish, MakeRoot, SyncTemp, OpenFile, SyncFile,
             EndWriting, SyncFiles, CheckFinal, SyncFinal, SyncCompiles, Fail, disk
<1>3. ASSUME NEW r \in Publishers, Publish(r)
      PROVE  FALSE
  <2>1. CASE r = p \/ r = q
    BY <1>1, <1>2, <1>3, <2>1
  <2>2. CASE r # p /\ r # q
    BY <1>1, <1>3, <2>2, OthersAlone
  <2> QED BY <2>1, <2>2
<1>4. CASE Kill \/ UNCHANGED publication
  BY <1>1, <1>4 DEF Kill, publication, disk
<1>5. CASE Stop
  BY <1>1, <1>5, StopFinds DEF Stop
<1> QED BY <1>3, <1>4, <1>5 DEF Next

---------------------------------------------------------------------------
\* Theorems

LEMMA InvStep ==
    ASSUME Inv, [Next]_publication
    PROVE  Inv'
<1>1. Types' /\ PlaceTypes' /\ FileTypes'
  BY TypesStep, PlaceTypesStep, FileTypesStep DEF Inv
<1>2. ASSUME NEW p \in Publishers
      PROVE  Known(p)'
  <2>1. ASSUME NEW q \in Publishers, Publish(q)
        PROVE  Known(p)'
    <3>1. CASE q = p
      BY <2>1, <3>1, OwnPlace, OwnFiles, OwnAnswer DEF Known
    <3>2. CASE q # p
      BY <2>1, <3>2, OthersKnown
    <3> QED BY <3>1, <3>2
  <2>2. CASE UNCHANGED publication
    BY <2>2 DEF publication, disk, Inv, Known, PlaceKnown, FileKnown, AnswerKnown
  <2> QED BY <2>1, <2>2, KillKnown, StopKnown DEF Next
<1> QED BY <1>1, <1>2, OneFinalStep DEF Inv

LEMMA InvAlways == Spec => []Inv
BY InvInit, InvStep, PTL DEF Spec

\* publish_compile_bundle_v4: what is found under a compile_id is all there,
\* whatever failed, was killed or lost its power before.
THEOREM WholeTheorem == Spec => []FinalIsWhole
<1>1. Inv => FinalIsWhole
  BY DEF Inv, Known, PlaceKnown, FileKnown, FinalIsWhole
<1> QED BY <1>1, InvAlways, PTL

\* os.rename after final_dir.exists(): of the bundles with one compile_id,
\* one at most is published.
THEOREM OneFinalTheorem == Spec => []OneFinalPerId
<1>1. Inv => OneFinalPerId
  BY DEF Inv
<1> QED BY <1>1, InvAlways, PTL

\* The types hold, and what programs see is among what may be found.
THEOREM PublicationTypes == Spec => []PublicationTypeOK
BY InvAlways, InvTypes, PTL

LEMMA KeptStep ==
    ASSUME Inv, [Next]_publication, NEW p \in Publishers,
           reply'[p] = 200, reply[p] = 200 => place[p] = "final"
    PROVE  place'[p] = "final" \/ (root = "unsynced" /\ root' = "absent")
<1>1. Types /\ PlaceTypes /\ Known(p)
  BY DEF Inv
<1>2. ASSUME NEW q \in Publishers, Publish(q)
      PROVE  place'[p] = "final"
  <2>1. CASE q # p
    <3>1. reply'[p] = reply[p] /\ place'[p] = place[p]
      BY <1>2, <2>1, OthersAlone
    <3> QED BY <3>1
  <2>2. CASE q = p
    <3>1. CASE SyncCompiles(p)
      BY <1>1, <3>1 DEF SyncCompiles, Doing, Known, PlaceKnown
    <3>2. ASSUME ~SyncCompiles(p)
          PROVE  reply[p] = 200
      BY <1>1, <1>2, <2>2, <3>2 DEF Publish, Validate, MakeRoot, MakeTemp, SyncTemp, OpenFile,
         SyncFile, EndWriting, SyncFiles, CheckFinal, Rename, SyncFinal, Fail, Cleanup, Answered,
         Types
    <3>3. ASSUME reply[p] = 200
          PROVE  FALSE
      <4>1. step[p] = "done"
        BY <1>1, <3>3 DEF Known, AnswerKnown
      <4> QED BY <1>2, <2>2, <4>1 DEF Publish, Validate, MakeRoot, MakeTemp, SyncTemp, OpenFile,
         SyncFile, EndWriting, SyncFiles, CheckFinal, Rename, SyncFinal, SyncCompiles, Fail,
         Cleanup, Doing
    <3> QED BY <3>1, <3>2, <3>3
  <2> QED BY <2>1, <2>2
<1>3. CASE Kill \/ UNCHANGED publication
  BY <1>3 DEF Kill, publication, disk
<1>4. CASE Stop
  <2>1. places[p] = {"final"}
    BY <1>1, <1>4 DEF Stop, Known, AnswerKnown
  <2> QED BY <1>4, <2>1 DEF Stop
<1> QED BY <1>2, <1>3, <1>4 DEF Next

\* A caller that was answered 200 keeps its bundle.
THEOREM KeptTheorem == Spec => AnsweredIsKept
<1>1. Inv /\ [Next]_publication =>
        [\A p \in Publishers :
            reply'[p] = 200 /\ (reply[p] = 200 => place[p] = "final") =>
                place'[p] = "final" \/ (root = "unsynced" /\ root' = "absent")]_publication
  BY KeptStep
<1> QED BY <1>1, InvAlways, PTL DEF Spec, AnsweredIsKept
=============================================================================
