------------------------------ MODULE SyncDemo ------------------------------
(***************************************************************************)
(* canister/src/sync_demo.rs: a process that follows the chain.  One task  *)
(* asks the adapter for blocks and inserts them, and the main thread       *)
(* executes commands; both share the state behind a read-write lock.  The  *)
(* command "save" writes the state to a file, from which the next process  *)
(* may start.  A process may be killed at any moment, or end because one   *)
(* of its unwraps fails.                                                   *)
(*                                                                         *)
(* The commands "utxos" and "balance" read the state under the lock and    *)
(* change nothing: they are GetUtxos and GetBalance with no confirmations  *)
(* asked for.                                                              *)
(***************************************************************************)
EXTENDS BitcoinAdapter, StateFile

CONSTANT MaxStarts      \* bound: how often a process is started

ASSUME SyncAssumption == MaxStarts \in Nat

VARIABLES
    starts,     \* number of processes started so far
    task,       \* what the syncing task does next
    request,    \* the hashes it has sent to the adapter
    answer,     \* the blocks the adapter has answered with
    saving,     \* the main thread holds the lock to save
    file        \* the file that is saved and loaded

processVars == <<starts, task, request, answer, saving>>
syncVars == <<vars, available, processVars, file>>

Tasks == {"none", "connect", "ask", "await", "insert", "dead"}

\* A file without a message does not decode, whatever part of one it holds:
\* State::decode fails, or leaves out a field that from_proto unwraps.  With the
\* message go, as history, the blocks its state was made of.
NoFile == [complete |-> FALSE]

Written(message) ==
    [complete |-> TRUE, message |-> message, stable |-> stable, delivered |-> delivered]

\* The adapter has every block: one that it has yet to download is one that it
\* does not serve yet.
SyncInit ==
    /\ Init
    /\ available = Blocks
    /\ starts = 0
    /\ task = "none" /\ request = {} /\ answer = <<>> /\ saving = FALSE
    /\ file = NoFile

-----------------------------------------------------------------------------
\* main() up to its loop, without a file.
Start ==
    /\ task = "none" /\ starts < MaxStarts
    /\ starts' = starts + 1
    /\ task' = "connect"
    /\ UNCHANGED <<vars, available, request, answer, saving, file>>

\* main() up to its loop: a file that is missing or incomplete ends the process.
StartFromFile ==
    /\ task = "none" /\ starts < MaxStarts
    /\ file.complete
    /\ starts' = starts + 1
    /\ task' = "connect"
    /\ state' = StateFromProto(file.message)
    /\ stable' = file.stable
    /\ delivered' = file.delivered
    /\ UNCHANGED <<available, request, answer, saving, file>>

-----------------------------------------------------------------------------
\* The syncing task

Connect ==
    /\ task = "connect"
    /\ task' = "ask"
    /\ UNCHANGED <<vars, available, starts, request, answer, saving, file>>

\* connect().await.unwrap() ends the task, and not the process.
ConnectFails ==
    /\ task = "connect"
    /\ task' = "dead"
    /\ UNCHANGED <<vars, available, starts, request, answer, saving, file>>

\* Mutant: the anchor is not in the request.
AskWithoutAnchor ==
    /\ task = "ask"
    /\ request' = GetBlocks(state.unstable_blocks)
    /\ task' = "await"
    /\ UNCHANGED <<vars, available, starts, answer, saving, file>>

\* The request is made under the read lock, which is released before the await.
Ask ==
    /\ task = "ask"
    /\ request' = GetBlocks(state.unstable_blocks) \cup {Anchor}
    /\ task' = "await"
    /\ UNCHANGED <<vars, available, starts, answer, saving, file>>

AdapterAnswers(blocks) ==
    /\ task = "await"
    /\ task' = "insert"
    /\ request' = {}
    /\ answer' = blocks
    /\ UNCHANGED <<vars, available, starts, saving, file>>

\* The adapter fails: the task sleeps and asks again.
AdapterFails ==
    /\ task = "await"
    /\ task' = "ask"
    /\ request' = {}
    /\ UNCHANGED <<vars, available, starts, answer, saving, file>>

\* The answer is inserted under one write lock.  A panic would end the task and
\* poison the lock, so that the next command ends the process.
InsertAnswer ==
    LET after == InsertAll(answer) IN
    /\ task = "insert" /\ ~saving
    /\ ~Traps(after.state)
    /\ state' = after.state
    /\ stable' = after.stable
    /\ delivered' = delivered \cup ToSet(answer)
    /\ task' = "ask"
    /\ answer' = <<>>
    /\ UNCHANGED <<available, starts, request, saving, file>>

-----------------------------------------------------------------------------
\* The command "save"

Running == task # "none"

\* File::create empties the file.
SaveBegins ==
    /\ Running /\ ~saving
    /\ saving' = TRUE
    /\ file' = NoFile
    /\ UNCHANGED <<vars, available, starts, task, request, answer>>

\* write_all() has written the whole message.
SaveEnds(message) ==
    /\ saving
    /\ saving' = FALSE
    /\ file' = Written(message)
    /\ UNCHANGED <<vars, available, starts, task, request, answer>>

\* The process is killed, a command line is malformed or the disk is full.  Its
\* memory is lost; the next process starts with a new state.
Kill ==
    /\ Running
    /\ task' = "none" /\ request' = {} /\ answer' = <<>> /\ saving' = FALSE
    /\ state' = NewState
    /\ stable' = <<Genesis>>
    /\ delivered' = {Genesis}
    /\ UNCHANGED <<available, starts, file>>

-----------------------------------------------------------------------------
ConnectStep == Connect \/ ConnectFails

ServeBlocks == \E bs \in Answers(request) : bs # <<>> /\ AdapterAnswers(bs)

AdapterStep == AdapterFails \/ \E bs \in Answers(request) : AdapterAnswers(bs)

SaveFinishes == \E message \in StateToProto(state) : SaveEnds(message)

SyncNext ==
    \/ Start \/ StartFromFile
    \/ ConnectStep
    \/ Ask
    \/ AdapterStep
    \/ InsertAnswer
    \/ SaveBegins
    \/ SaveFinishes
    \/ Kill

\* The task runs as long as its process, an adapter that is asked again and again
\* and has blocks to serve does not withhold them for ever, every save ends, and
\* a task that waits for the lock gets it between two saves.  The last two are
\* said of the states they end, which spares TLC from evaluating ENABLED of the
\* insertion and of the encoding.
Fairness ==
    /\ WF_syncVars(ConnectStep)
    /\ WF_syncVars(Ask)
    /\ WF_syncVars(AdapterStep)
    /\ SF_syncVars(ServeBlocks)
    /\ []<>~saving
    /\ []<>(task # "insert")

SyncSpec == SyncInit /\ [][SyncNext]_syncVars /\ Fairness

-----------------------------------------------------------------------------
\* The type invariant of the process, its task and the file.
SyncTypeOK ==
    /\ TypeOK
    /\ available \subseteq Blocks /\ request \subseteq Blocks
    /\ starts \in 0..MaxStarts
    /\ task \in Tasks
    /\ answer \in Seq(Blocks)
    /\ saving \in BOOLEAN
    /\ saving => Running /\ ~file.complete
    /\ request # {} <=> task = "await"
    /\ answer # <<>> => task = "insert"

\* A process that has started from a file stabilises what the process that saved
\* it would have: a block becomes stable once the blocks delivered to either of
\* them make it so by the definition at the head of blockforest.rs, and a
\* competitor that came by way of the file holds it back.
StabilisesAcrossStarts ==
    [][InsertAnswer =>
          \A i \in (Len(stable) + 1)..Len(stable') :
              \E k \in DOMAIN answer :
                  DefinitionOfStable(delivered \cup ToSet(SubSeq(answer, 1, k)),
                                     stable'[i])]_syncVars

\* Every block that the adapter has and that can still be part of the chain
\* reaches the state of a process whose task has connected, wherever it started.
BlocksReachState ==
    \A b \in Blocks :
        b \in available ~>
            task \in {"none", "dead"} \/ b \in delivered \/ ~Descends(b, Anchor)
=============================================================================
