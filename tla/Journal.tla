------------------------------- MODULE Journal -------------------------------
(***************************************************************************)
(* The journal: segment files linked by their roots, the work directory's  *)
(* "latest" link, and programs that start, replay, append, stop and crash. *)
(*                                                                         *)
(* Files are numbered in the order they are created, which is how their    *)
(* names are chosen.  A write is cut short by a crash only: the record is  *)
(* then torn.  A record is identified by its number; what it does to the   *)
(* program's state is a function of the records before it, so the state is *)
(* the sequence of the records applied.                                    *)
(***************************************************************************)
EXTENDS Integers, Sequences, FiniteSets, SequencesExt

CONSTANTS
  Proc,        \* programs, which may be started again and again
  MaxRunning,  \* bound: how many run at once
  MaxFiles, MaxRecords   \* bounds

ASSUME JournalAssumption == {MaxRunning, MaxFiles, MaxRecords} \subseteq Nat

VARIABLES
  files,    \* the segments: the root's prev, the records, and what a crash tore
  latest,   \* the file the work directory's link names, or 0
  procs,    \* what each program is doing
  written   \* how many records were ever written

jvars == <<files, latest, procs, written>>

File == 1 .. Len(files)
Record == 1 .. written

-----------------------------------------------------------------------------
(* Chains *)

\* discover_chain: the segments from the first one to f.
ChainTo(f) ==
  LET chain[g \in 0 .. f] == IF g = 0 THEN <<>> ELSE Append(chain[files[g].prev], g)
  IN chain[f]

\* The records of a chain's segments, each with its access identifier: the
\* segment's place in the chain and the record's offset.
Numbered(chain, i) ==
  [n \in 1 .. Len(files[chain[i]].records) |->
     [id |-> <<i, n>>, record |-> files[chain[i]].records[n]]]
Replayed(chain) == FlattenSeq([i \in 1 .. Len(chain) |-> Numbered(chain, i)])

\* Message::read of each root, and of each record.
RootsReadable(chain) == \A i \in 1 .. Len(chain) : files[chain[i]].root
Readable(chain) == \A i \in 1 .. Len(chain) : files[chain[i]].torn = FALSE

-----------------------------------------------------------------------------
(* Programs *)

Off == [at |-> "off", journal |-> 0, resume |-> 0, workdir |-> FALSE,
        chain |-> <<>>, offset |-> 0, log |-> <<>>]

Set(p, state) == procs' = [procs EXCEPT ![p] = state]
Running == {p \in Proc : procs[p].at # "off"}

\* The file a program resumes from: the link's, or the one its user names.
Resumed(workdir) == IF workdir THEN {latest} ELSE 0 .. Len(files)

\* main: the new segment's name is one that no file has.
Start(p, workdir) ==
  /\ procs[p].at = "off" /\ Len(files) < MaxFiles
  /\ Cardinality(Running) < MaxRunning
  /\ \E r \in Resumed(workdir) :
       Set(p, [Off EXCEPT !.at = "named", !.journal = Len(files) + 1,
                          !.resume = r, !.workdir = workdir])
  /\ UNCHANGED <<files, latest, written>>

SegmentUnlinked(prev, root) ==   \* mutated: the root does not name its predecessor
  [prev |-> 0, root |-> root, records |-> <<>>, torn |-> FALSE]
Segment(prev, root) == [prev |-> prev, root |-> root, records |-> <<>>, torn |-> FALSE]

\* create_new_segment; O_EXCL fails if another program has taken the name.
CreateSegment(p) ==
  /\ procs[p].at = "named"
  /\ IF procs[p].journal \in File
     THEN files' = files /\ Set(p, Off)
     ELSE /\ files' = Append(files, Segment(procs[p].resume, TRUE))
          /\ Set(p, [procs[p] EXCEPT !.at = "created"])
  /\ UNCHANGED <<latest, written>>

\* The crash in the middle of it: a file without a root.
CrashInRoot(p) ==
  /\ procs[p].at = "named" /\ procs[p].journal \notin File
  /\ files' = Append(files, Segment(0, FALSE))
  /\ Set(p, Off)
  /\ UNCHANGED <<latest, written>>

\* discover_chain and the replay; a record that cannot be read ends the program.
Replay(p) ==
  /\ procs[p].at = "created"
  /\ LET chain == ChainTo(procs[p].journal)
     IN IF RootsReadable(chain) /\ Readable(chain)
        THEN Set(p, [procs[p] EXCEPT !.at = "replayed", !.chain = chain,
                                     !.log = Replayed(chain)])
        ELSE Set(p, Off)
  /\ UNCHANGED <<files, latest, written>>

ReadyNamed(p) == procs[p].at = "named"       \* mutated: the link comes first
ReadyCreated(p) == procs[p].at = "created"   \* mutated: it precedes the replay
Ready(p) == procs[p].at = "replayed"

\* The link is renamed into place once the runtime is constructed.
SetLatest(p) ==
  /\ Ready(p)
  /\ latest' = IF procs[p].workdir THEN procs[p].journal ELSE latest
  /\ Set(p, [procs[p] EXCEPT !.at = "running"])
  /\ UNCHANGED <<files, written>>

\* The state of p and of the journal after p has written a record.
Wrote(p, at) ==
  /\ written < MaxRecords
  /\ files' = [files EXCEPT ![procs[p].journal].records = Append(@, written + 1)]
  /\ written' = written + 1
  /\ Set(p, [procs[p] EXCEPT !.at = at, !.offset = @ + 1])
  /\ UNCHANGED latest

\* Journal::append of a record to be applied.
AppendRecord(p) == procs[p].at = "running" /\ Wrote(p, "appended")

\* The records of the shutdown, which are written and not applied.
Shutdown(p) == procs[p].at \in {"running", "stopping"} /\ Wrote(p, "stopping")

\* The crash in the middle of a write: a record that is not whole.
CrashInWrite(p) ==
  /\ procs[p].at \in {"running", "stopping"}
  /\ files' = [files EXCEPT ![procs[p].journal].torn = TRUE]
  /\ Set(p, Off)
  /\ UNCHANGED <<latest, written>>

\* make_access_id(last_segment_, offset_), of the record just written.
IdentifierInFile(p) == <<1, procs[p].offset>>   \* mutated: in its file only
Identifier(p) == <<Len(procs[p].chain), procs[p].offset>>

\* Program::apply, under the identifier append returned.
ApplyRecord(p) ==
  /\ procs[p].at = "appended"
  /\ Set(p, [procs[p] EXCEPT
       !.at = "running",
       !.log = Append(@, [id |-> Identifier(p),
                          record |-> Last(files[procs[p].journal].records)])])
  /\ UNCHANGED <<files, latest, written>>

\* The program ends, by itself or killed.
Stop(p) ==
  /\ procs[p].at # "off"
  /\ Set(p, Off)
  /\ UNCHANGED <<files, latest, written>>

JInit ==
  /\ files = <<>> /\ latest = 0 /\ written = 0
  /\ procs = [p \in Proc |-> Off]

JNext ==
  \E p \in Proc :
    \/ \E workdir \in BOOLEAN : Start(p, workdir)
    \/ CreateSegment(p) \/ CrashInRoot(p) \/ Replay(p) \/ SetLatest(p)
    \/ AppendRecord(p) \/ Shutdown(p) \/ CrashInWrite(p) \/ ApplyRecord(p) \/ Stop(p)

JSpec == JInit /\ [][JNext]_jvars

-----------------------------------------------------------------------------
(* Properties *)

Entry == [id : (1 .. MaxFiles) \X (1 .. MaxRecords), record : 1 .. MaxRecords]

JTypeOK ==
  /\ files \in Seq([prev : 0 .. Len(files), root : BOOLEAN, records : Seq(Record),
                    torn : BOOLEAN])
  /\ Len(files) \in 0 .. MaxFiles /\ latest \in 0 .. Len(files)
  /\ written \in 0 .. MaxRecords
  /\ procs \in [Proc ->
       [at : {"off", "named", "created", "replayed", "running", "appended", "stopping"},
        journal : 0 .. MaxFiles, resume : 0 .. Len(files), workdir : BOOLEAN,
        chain : Seq(File), offset : 0 .. MaxRecords, log : Seq(Entry)]]

\* The program's state and the identifiers its agents remember are those the
\* journal replays to, but for the record that is written and not yet applied:
\* wherever the program is killed, the next one is at most that record ahead.
ChainIsLog ==
  \A p \in Proc :
    LET replayed == Replayed(ChainTo(procs[p].journal))
    IN /\ procs[p].at \in {"replayed", "running"} => procs[p].log = replayed
       /\ procs[p].at = "appended" => procs[p].log = Front(replayed)

\* The work directory's link never names a chain that a crash while starting
\* has left unfinished, and only the last segment can end in a torn record.  If
\* one does, Replay fails, and so does every later start from that directory: the
\* property does not say that none does.
LatestReplays ==
  latest # 0 =>
    /\ RootsReadable(ChainTo(latest))
    /\ Readable(Front(ChainTo(latest)))

\* The journal of a work directory implements the abstract log: starting,
\* crashing and stopping change nothing, and records are added at its end.  The
\* log is of complete records; that a torn last one can be replayed is not said.
L == INSTANCE Log WITH log <- Replayed(ChainTo(latest))
DurableLog == L!LSpec
=============================================================================
