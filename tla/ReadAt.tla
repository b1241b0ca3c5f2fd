------------------------------- MODULE ReadAt -------------------------------
(***************************************************************************)
(* `ggt export --ref`: a dataset read from a commit instead of the         *)
(* worktree.  git lists a directory, then one `git cat-file --batch`       *)
(* answers for all of its files: a thread writes a request per file into   *)
(* one pipe while the command drains the answers from another, because     *)
(* either pipe can be full.  The answers are told apart by their headers   *)
(* and matched to the files by place alone.  A listing that git fails is   *)
(* an empty directory to the command.                                      *)
(*                                                                         *)
(* A ref is a name: each git process, and each request of a batch, looks   *)
(* it up anew, while other processes commit.                               *)
(***************************************************************************)
EXTENDS Naturals, FiniteSets, SequencesExt

CONSTANTS
    Legend, Feature,    \* names of files below meta/legend and feature
    Tree,               \* what commits hold of the dataset: its schema and files
    NoFile,
    Capacity            \* what a pipe holds, in requests or in parts of an answer

File == Legend \cup Feature

\* No name is of both directories, and the names there can be are finitely many.
ASSUME NameAssumption ==
    Legend # {} /\ Legend \cap Feature = {} /\ IsFiniteSet(Legend) /\ IsFiniteSet(Feature)

\* A feature file names the legend it is written in; a legend file is its own.
ASSUME TreeAssumption ==
    \A t \in Tree :
        /\ DOMAIN t = {"schema", "files"} /\ DOMAIN t.files = File
        /\ \A l \in Legend : t.files[l] \in {l, NoFile}
        /\ \A f \in Feature : t.files[f] # NoFile => t.files[f].legend \in Legend
        /\ t.schema = NoFile => \A name \in File : t.files[name] = NoFile
ASSUME CapacityAssumption == Capacity \in Nat \ {0}

VARIABLES
    ref,        \* the tree of the commit the ref names
    seen,       \* every tree it has named since the command started, and ...
    unlisted,   \* ... the directories git failed to list; no code keeps either
    step,       \* where the command is
    batch,      \* whose files it is reading, Legend or Feature
    schema,     \* the schema it has read
    legends,    \* the legends it has read
    paths,      \* the files listed, and asked for
    sent,       \* how many of them the writer has written
    writer,     \* the thread: "writing", "done" or "broken"
    stdin, stdout,  \* the two pipes
    git,        \* the batch process: "none", "running", "exited" or "died"
    answer,     \* what git has still to write of the answer it is at
    received,   \* the parts of answers the command has and has not parsed
    blobs,      \* the blobs parsed, NoFile for a file that is missing
    exported    \* the features read

child == <<sent, writer, stdin, stdout, git, answer>>
vars == <<ref, seen, unlisted, step, batch, schema, legends, paths, child, received, blobs, exported>>

Header(blob) == [part |-> "header", missing |-> blob = NoFile]
Body(blob) == [part |-> "body", blob |-> blob]

TypeOK ==
    /\ ref \in Tree /\ seen \in SUBSET Tree
    /\ step \in {"idle", "list", "read", "parse", "collect", "done", "failed"}
    /\ batch \in {Legend, Feature} /\ unlisted \subseteq {Legend, Feature}
    /\ legends \in SUBSET Legend
    /\ paths \in Seq(File) /\ IsInjective(paths)
    /\ sent \in 0 .. Len(paths)
    /\ writer \in {"writing", "done", "broken"}
    /\ git \in {"none", "running", "exited", "died"}
    /\ Len(stdin) <= Capacity /\ Len(stdout) <= Capacity
    /\ Len(blobs) <= Len(paths)
    /\ DOMAIN exported \subseteq Feature

-----------------------------------------------------------------------------
(* The command, up to the batch. *)

\* A command starts; git show of the schema, without which there is no dataset, as there
\* is none where git show fails.
Start ==
    /\ step \in {"idle", "done", "failed"}
    /\ seen' = {ref} /\ unlisted' = {}
    /\ schema' \in {ref.schema, NoFile}
    /\ step' = IF schema' = NoFile THEN "failed" ELSE "list"
    /\ batch' = Legend /\ legends' = {} /\ exported' = << >>
    /\ paths' = <<>> /\ received' = <<>> /\ blobs' = <<>>
    /\ sent' = 0 /\ writer' = "done" /\ stdin' = <<>> /\ stdout' = <<>>
    /\ git' = "none" /\ answer' = <<>>
    /\ UNCHANGED ref

\* Mutant of Spawn: the blobs of one batch are there when the next begins.
SpawnOnto(names) ==
    /\ paths' = SetToSeq(names)
    /\ step' = "read"
    /\ sent' = 0 /\ writer' = "writing" /\ git' = "running"
    /\ stdin' = <<>> /\ stdout' = <<>> /\ answer' = <<>>
    /\ received' = <<>>
    /\ UNCHANGED <<ref, seen, batch, schema, legends, blobs, exported>>

\* read_files_at(): the batch process and the thread that writes to it.
Spawn(names) ==
    /\ paths' = SetToSeq(names)
    /\ step' = "read"
    /\ sent' = 0 /\ writer' = "writing" /\ git' = "running"
    /\ stdin' = <<>> /\ stdout' = <<>> /\ answer' = <<>>
    /\ received' = <<>> /\ blobs' = <<>>
    /\ UNCHANGED <<ref, seen, batch, schema, legends, exported>>

\* ls_tree() and ls_tree_recursive(): a directory that is not there is empty, and so is
\* one that git fails to list.
ListAndSpawn ==
    /\ step = "list"
    /\ \/ /\ Spawn({name \in batch : ref.files[name] # NoFile})
          /\ UNCHANGED unlisted
       \/ /\ Spawn({})
          /\ unlisted' = unlisted \cup {batch}

-----------------------------------------------------------------------------
(* The writer thread, git, and the command at the other end. *)

\* Mutant of WriterPut: write() in the place of write_all().
WriterPutOnce ==
    /\ step = "read" /\ writer = "writing" /\ sent < Len(paths)
    /\ git = "running" /\ Len(stdin) < Capacity
    /\ stdin' = Append(stdin, paths[sent + 1])
    /\ sent' = Len(paths)
    /\ UNCHANGED <<ref, seen, unlisted, step, batch, schema, legends, paths, writer, stdout,
                   git, answer, received, blobs, exported>>

\* A write waits while the pipe is full.
CanPut ==
    /\ step = "read" /\ writer = "writing" /\ sent < Len(paths)
    /\ git = "running" /\ Len(stdin) < Capacity

WriterPut ==
    /\ CanPut
    /\ stdin' = Append(stdin, paths[sent + 1])
    /\ sent' = sent + 1
    /\ UNCHANGED <<ref, seen, unlisted, step, batch, schema, legends, paths, writer, stdout,
                   git, answer, received, blobs, exported>>

\* All written: the thread ends, and drops its end of the pipe.  Nobody reads: it ends too.
CanEnd == step = "read" /\ writer = "writing" /\ (sent = Len(paths) \/ git # "running")

WriterEnds ==
    /\ CanEnd
    /\ writer' = IF sent = Len(paths) THEN "done" ELSE "broken"
    /\ UNCHANGED <<ref, seen, unlisted, step, batch, schema, legends, paths, sent, stdin,
                   stdout, git, answer, received, blobs, exported>>

CanRead == git = "running" /\ answer = <<>> /\ stdin # <<>>

\* git looks "ref:path" up when it comes to it.
GitReads ==
    /\ CanRead
    /\ LET blob == ref.files[Head(stdin)]
       IN  answer' = IF blob = NoFile THEN <<Header(blob)>> ELSE <<Header(blob), Body(blob)>>
    /\ stdin' = Tail(stdin)
    /\ UNCHANGED <<ref, seen, unlisted, step, batch, schema, legends, paths, sent, writer,
                   stdout, git, received, blobs, exported>>

CanWrite == git = "running" /\ answer # <<>> /\ Len(stdout) < Capacity

GitWrites ==
    /\ CanWrite
    /\ stdout' = Append(stdout, Head(answer))
    /\ answer' = Tail(answer)
    /\ UNCHANGED <<ref, seen, unlisted, step, batch, schema, legends, paths, sent, writer,
                   stdin, git, received, blobs, exported>>

CanExit == git = "running" /\ answer = <<>> /\ stdin = <<>> /\ writer # "writing"

GitExits ==
    /\ CanExit
    /\ git' = "exited"
    /\ UNCHANGED <<ref, seen, unlisted, step, batch, schema, legends, paths, sent, writer,
                   stdin, stdout, answer, received, blobs, exported>>

\* It is killed, at a broken object perhaps, its answer half written.
GitDies ==
    /\ git = "running"
    /\ git' = "died" /\ answer' = <<>>
    /\ UNCHANGED <<ref, seen, unlisted, step, batch, schema, legends, paths, sent, writer,
                   stdin, stdout, received, blobs, exported>>

\* Mutant of CanDrain: the answers are read when all the requests are written.
CanDrainAfterwards == step = "read" /\ stdout # <<>> /\ writer # "writing"

\* wait_with_output() reads while the thread writes.
CanDrain == step = "read" /\ stdout # <<>>

Drain ==
    /\ CanDrain
    /\ received' = Append(received, Head(stdout))
    /\ stdout' = Tail(stdout)
    /\ UNCHANGED <<ref, seen, unlisted, step, batch, schema, legends, paths, sent, writer,
                   stdin, git, answer, blobs, exported>>

CanJoin == step = "read" /\ stdout = <<>> /\ git \in {"exited", "died"} /\ writer # "writing"

\* The end of the output, join() of the thread, and git's exit status.
Join ==
    /\ CanJoin
    /\ step' = IF writer = "broken" \/ git = "died" THEN "failed" ELSE "parse"
    /\ UNCHANGED <<ref, seen, unlisted, batch, schema, legends, paths, child, received,
                   blobs, exported>>

-----------------------------------------------------------------------------
(* The answers. *)

\* Mutant of ParseReply: a missing file leaves no place among the blobs.
ParseReplySkipping ==
    /\ step = "parse"
    /\ LET answered == Len(received) > 0 /\ received[1].part = "header"
           whole == answered /\ (~received[1].missing => Len(received) > 1)
       IN  IF ~whole
           THEN /\ step' = IF received = <<>> THEN "collect" ELSE "failed"
                /\ UNCHANGED <<received, blobs>>
           ELSE /\ step' = step
                /\ IF received[1].missing
                   THEN received' = Tail(received) /\ UNCHANGED blobs
                   ELSE /\ blobs' = Append(blobs, received[2].blob)
                        /\ received' = Tail(Tail(received))
    /\ UNCHANGED <<ref, seen, unlisted, batch, schema, legends, paths, child, exported>>

\* The answer for the next path: a header, and unless it says missing the blob after it.
ParseReply ==
    /\ step = "parse" /\ Len(blobs) < Len(paths)
    /\ LET answered == Len(received) > 0 /\ received[1].part = "header"
           whole == answered /\ (~received[1].missing => Len(received) > 1)
       IN  IF ~whole THEN step' = "failed" /\ UNCHANGED <<received, blobs>>
           ELSE /\ step' = step
                /\ IF received[1].missing
                   THEN blobs' = Append(blobs, NoFile) /\ received' = Tail(received)
                   ELSE /\ blobs' = Append(blobs, received[2].blob)
                        /\ received' = Tail(Tail(received))
    /\ UNCHANGED <<ref, seen, unlisted, batch, schema, legends, paths, child, exported>>

ParseEnds ==
    /\ step = "parse" /\ Len(blobs) = Len(paths)
    /\ step' = "collect"
    /\ UNCHANGED <<ref, seen, unlisted, batch, schema, legends, paths, child, received,
                   blobs, exported>>

\* A file that was listed and is missing when it is read ends the command.
SomethingIsMissing == \E i \in DOMAIN blobs : blobs[i] = NoFile

CollectLegends ==
    /\ step = "collect" /\ batch = Legend
    /\ IF SomethingIsMissing
       THEN step' = "failed" /\ UNCHANGED <<batch, legends>>
       ELSE step' = "list" /\ batch' = Feature /\ legends' = Range(blobs)
    /\ UNCHANGED <<ref, seen, unlisted, schema, paths, child, received, blobs, exported>>

\* Mutant of Matched: the blobs are taken from the end.
MatchedFromTheEnd ==
    {<<paths[i], blobs[Len(blobs) + 1 - i]>> : i \in DOMAIN blobs}

\* zip of the paths and the blobs.
Matched == {<<paths[i], blobs[i]>> : i \in DOMAIN blobs}

\* decode_feature_file(): a feature of a legend that was not read is passed over.
CollectFeatures ==
    /\ step = "collect" /\ batch = Feature
    /\ IF SomethingIsMissing
       THEN step' = "failed" /\ UNCHANGED exported
       ELSE LET decoded == {pair \in Matched : pair[2].legend \in legends}
            IN  /\ step' = "done"
                /\ exported' = [f \in {pair[1] : pair \in decoded} |->
                                    (CHOOSE pair \in decoded : pair[1] = f)[2]]
    /\ UNCHANGED <<ref, seen, unlisted, batch, schema, legends, paths, child, received,
                   blobs>>

\* Another process commits to the branch.
RefMoves ==
    \E t \in Tree :
        /\ ref' = t /\ seen' = seen \cup {t}
        /\ UNCHANGED <<unlisted, step, batch, schema, legends, paths, child, received, blobs,
                       exported>>

-----------------------------------------------------------------------------

Init ==
    /\ ref \in Tree /\ seen = {} /\ unlisted = {}
    /\ step = "idle" /\ batch = Legend /\ schema = NoFile /\ legends = {} /\ exported = << >>
    /\ paths = <<>> /\ received = <<>> /\ blobs = <<>>
    /\ sent = 0 /\ writer = "done" /\ stdin = <<>> /\ stdout = <<>>
    /\ git = "none" /\ answer = <<>>

Writer == WriterPut \/ WriterEnds
Git == GitReads \/ GitWrites \/ GitExits
Command ==
    \/ ListAndSpawn \/ Drain \/ Join
    \/ ParseReply \/ ParseEnds \/ CollectLegends \/ CollectFeatures

Next == Start \/ Writer \/ Git \/ GitDies \/ Command \/ RefMoves

Spec == Init /\ [][Next]_vars

\* A thread and two processes that were started go on; nobody has to start or to commit.
FairSpec == Spec /\ WF_vars(Writer) /\ WF_vars(Git) /\ WF_vars(Command)

-----------------------------------------------------------------------------
(* Properties. *)

\* The features of a tree that the export of that tree has: those whose legend is there.
Readable(t) ==
    {f \in Feature : t.files[f] # NoFile /\ t.files[t.files[f].legend] # NoFile}

\* While the ref stays where it is, an export has the schema of its commit and every
\* feature of it, each the blob of its own path; but no feature at all, and still no
\* error, where git failed to list either directory.
ExportIsTheTree ==
    step = "done" /\ seen = {ref} =>
        /\ schema = ref.schema
        /\ exported = [f \in IF unlisted = {} THEN Readable(ref) ELSE {} |-> ref.files[f]]

\* However the ref moves meanwhile, each feature exported is one the ref had under that
\* path, and none is missing that was readable through all of it, once the directories
\* are listed.
ExportedWasThere ==
    step = "done" =>
        /\ \A f \in DOMAIN exported : \E t \in seen : exported[f] = t.files[f]
        /\ unlisted = {} => \A f \in Feature :
            (\A t \in seen : f \in Readable(t) /\ \A u \in seen : u.files[t.files[f].legend] # NoFile)
                => f \in DOMAIN exported

\* An export fails for a reason: no schema, a ref that moved, or git dying; a listing
\* that fails is none.
FailureHasACause ==
    step = "failed" => schema = NoFile \/ seen # {ref} \/ git = "died"

\* The thread, git and the command never wait for one another all at once, on full or empty
\* pipes or on one another's end: one of them can go on.
NoMutualWait ==
    step = "read" =>
        CanPut \/ CanEnd \/ CanRead \/ CanWrite \/ CanExit \/ CanDrain \/ CanJoin

\* An export that starts ends, done or failed.
ExportEnds == step = "list" ~> step \in {"done", "failed"}

=============================================================================
