----------------------------- MODULE DiffTesting -----------------------------
(***************************************************************************)
(* diff_testing.py on one test case, and the two scripts that read what it *)
(* writes: check_results.py and check_postState.py.                        *)
(*                                                                         *)
(* The clients are run one after the other on each pair of a state and a   *)
(* block (or on the one operation, epoch step or slot count of a case).    *)
(* Each leaves an exit code and, in a directory that is never cleared, a   *)
(* post-state.  Then the post-states are compared.  The program is run     *)
(* again over the same directory: after a client was rebuilt, with fewer   *)
(* blocks, or for a case whose name gives the same directory.              *)
(***************************************************************************)
EXTENDS Naturals, Sequences, FiniteSets

CONSTANTS
    Tools,          \* the clients in the order they are run
    Blocks,         \* the indices of the files, naturals
    Cases,          \* the lists of indices a run may find, ascending
    Deviant,        \* the clients that may compute another state than the rest
    Installs,       \* the sets of clients that may be installed
    FailCodes,      \* the exit codes of clients that fail
    Configs,        \* what is tested, how, and in which format the case is
    MaxRuns         \* bound: the runs of the program

Clients == {Tools[i] : i \in DOMAIN Tools}

Config == [kind : {"blocks", "operation", "epoch", "slots"},
           workflow : {"independent", "sequential"},
           format : {"pre", "multi", "legacy"}]

ASSUME DiffAssumption ==
    /\ \A i, j \in DOMAIN Tools : Tools[i] = Tools[j] => i = j
    /\ Tools \in Seq(STRING) /\ Tools # <<>> /\ Tools[1] # "eth2spec"
    /\ Blocks \subseteq Nat /\ 0 \in Blocks
    /\ Cases \subseteq Seq(Blocks)
    /\ \A case \in Cases : \A i, j \in DOMAIN case : i < j => case[i] < case[j]
    /\ Installs \subseteq SUBSET Clients
    /\ FailCodes \subseteq {"1", "2", "101", "-11"}
    /\ Configs \subseteq Config
    /\ MaxRuns \in Nat

Variants == {"right", "wrong"}

\* A file is not there, or it is empty, cut short, or a state: the steps that led
\* to it from the first one.
Files == [size : {"absent", "empty", "partial", "full"}, steps : Seq(Blocks \X Variants)]
File(size, steps) == [size |-> size, steps |-> steps]
Nothing(size) == File(size, <<>>)
Initial == File("full", <<>>)
Readable(file) == file.size \in {"partial", "full"}

VARIABLES
    config,         \* the options of the program
    installed,      \* the clients whose binary is there
    run,            \* how often the program was started
    phase,          \* what it does
    pairs,          \* the indices still to be run, the first is at hand
    done,           \* the indices that were run
    turn,           \* the client to be run, a position in Tools
    pre,            \* the state the pair at hand starts from
    output,         \* the file of each client for each index
    status,         \* of this run: what each client ended with
    successful,     \* successful_clients_by_index; {} where it has no entry
    differences     \* the Differences file of this run

vars == <<config, installed, run, phase, pairs, done, turn, pre, output, status,
          successful, differences>>

-----------------------------------------------------------------------------
(* One client *)

\* What a client may do with a pair: its exit code, or that which Lodestar prints
\* in place of it, and its file.  A client that
\* succeeds has written its state.  One that fails leaves the file that was there;
\* but Prysm may fail after it wrote, Teku and Eth2spec may leave an empty file, and
\* one that is killed may have written a part.
Outcomes(c, block) ==
    [code : {"0"},
     file : {File("full", Append(pre.steps, <<block, v>>)) :
                v \in IF c \in Deviant THEN Variants ELSE {"right"}}]
    \cup
    [code : FailCodes,
     file : {output[c][block]}
            \cup IF c = "prysm"
                 THEN {File("full", Append(pre.steps, <<block, "right">>))} ELSE {}
            \cup IF c \in {"teku", "eth2spec"} THEN {Nothing("empty")} ELSE {}]
    \cup
    [code : FailCodes \cap {"-11"}, file : {Nothing("partial")}]

\* The status that an exit code stands for.
Classify(code) == CASE code = "0" -> "0" [] code = "-11" -> "2" [] OTHER -> "1"

\* The client that is run, and the pair it is run on.
AtHand == Tools[turn]
Block == Head(pairs)

\* What is left of the file of a client that ended with o: an empty one goes when
\* the client failed and is one of those that are cleaned up after.
Kept(o, cleaned) ==
    IF o.code # "0" /\ o.file.size = "empty" /\ AtHand \in cleaned
    THEN Nothing("absent") ELSE o.file

-----------------------------------------------------------------------------
(* The rows of the reports *)

\* Only blocks can be chained.
Sequential == config.kind = "blocks" /\ config.workflow = "sequential"

\* The index under which a pair is recorded, when it is that of a file at all.  A
\* sequential run takes it from the name of the block, which is blocks_0 for every
\* pre_*, and of which block_1 is no index.
RecordedAs(block) ==
    IF ~Sequential \/ config.format = "pre" THEN {block}
    ELSE IF config.format = "multi" THEN {0} ELSE {}

\* The clients that succeeded on a pair.
Succeeded(block) == {c \in Clients : status[block][c] = "0"}

\* A fault: the state that is there is taken, whoever left it.
AnyFile(block) ==
    {i \in DOMAIN Tools : output[Tools[i]][block].size # "absent"}

\* The positions of the clients whose state the next pair may start from.
MayFollow(block) ==
    {i \in DOMAIN Tools : /\ Tools[i] \in Succeeded(block)
                          /\ output[Tools[i]][block].size # "absent"}

-----------------------------------------------------------------------------
(* Comparison *)

\* The clients whose files are compared: those that succeeded, or all of them
\* when none is recorded.
ToCheck(block) == IF successful[block] # {} THEN successful[block] ELSE Clients

\* A fault: a client is compared with the next one only.
Adjacent(cs, file) ==
    {p \in cs \X cs :
        /\ file[p[1]] # file[p[2]]
        /\ \E i \in DOMAIN Tools :
            i + 1 \in DOMAIN Tools /\ p[1] = Tools[i] /\ p[2] = Tools[i + 1]}

\* The pairs of clients with different files.
Differing(cs, file) == {p \in cs \X cs : file[p[1]] # file[p[2]]}

\* compare_ssz_files_in_output: for each index some client has a file of, which
\* files were read, and which differ.
Compare ==
    LET Of(block) == [c \in Clients |-> output[c][block]]
        Read(block) == {c \in ToCheck(block) : Readable(output[c][block])}
    IN  [block \in {b \in Blocks : \E c \in Clients : output[c][b].size # "absent"} |->
            [read |-> Read(block), differ |-> Differing(Read(block), Of(block))]]

\* check_postState.py: an index is listed if two files of it differ, whoever
\* wrote them.
PostStateListed(block) ==
    \E a, b \in Clients :
        /\ Readable(output[a][block]) /\ Readable(output[b][block])
        /\ output[a][block] # output[b][block]

\* A fault: the whole label is read.
WholeLabel(label) == IF label \in {"0", "1", "2"} THEN label ELSE "none"

\* parse_status_value of check_results.py: the first character decides.
ParseStatus(label) ==
    CASE label = "0" -> "0"
      [] label \in {"1", "101"} -> "1"
      [] label = "2" -> "2"
      [] OTHER -> "none"

Parsed(block) == {ParseStatus(status[block][c]) : c \in Clients} \ {"none"}

\* check_mismatch_cases: a row is listed unless all succeed, or all fail.
MismatchListed(block) == ~\E s \in {"0", "1"} : Parsed(block) = {s}

-----------------------------------------------------------------------------
(* The steps *)

NoStatus == [b \in Blocks |-> [c \in Clients |-> "None"]]

Init ==
    /\ config \in Configs
    /\ installed \in Installs
    /\ run = 1
    /\ phase = "idle"
    /\ pairs = <<>> /\ done = {} /\ turn = 1
    /\ pre = Initial
    /\ output = [c \in Clients |-> [b \in Blocks |-> Nothing("absent")]]
    /\ status = NoStatus
    /\ successful = [b \in Blocks |-> {}]
    /\ differences = <<>>

\* A case begins: these are its pairs.
Begin(case) ==
    /\ phase \in {"idle", "reported"}
    /\ run <= MaxRuns
    /\ pairs' = case
    /\ phase' = IF case = <<>> THEN "compare" ELSE "clients"
    /\ turn' = 1 /\ done' = {}
    /\ pre' = Initial
    /\ status' = NoStatus
    /\ successful' = [b \in Blocks |-> {}]
    /\ differences' = <<>>
    /\ UNCHANGED <<config, installed, run, output>>

\* The blocks are listed; those that cannot be decompressed are not in the list.
StartBlocks(case) ==
    /\ config.kind = "blocks"
    /\ Begin(case)

\* The other kinds of case are one pair, or none when a file is missing.
StartOne(kind, case) ==
    /\ config.kind = kind
    /\ Len(case) <= 1
    /\ Begin(case)

StartOperation(case) == StartOne("operation", case)
StartEpoch(case) == StartOne("epoch", case)
StartSlots(case) == StartOne("slots", case)

\* A client is to be run for a case of this kind.
Running(kind) ==
    /\ phase = "clients"
    /\ config.kind = kind
    /\ turn \in DOMAIN Tools

\* The client at hand ends with this status and leaves this file.
Ends(label, file) ==
    /\ status' = [status EXCEPT ![Block][AtHand] = label]
    /\ output' = [output EXCEPT ![AtHand][Block] = file]
    /\ turn' = turn + 1
    /\ UNCHANGED <<config, installed, run, phase, pairs, done, pre, successful, differences>>

\* process_clients.
RunOnBlock ==
    /\ Running("blocks")
    /\ IF AtHand \in installed
       THEN \E o \in Outcomes(AtHand, Block) :
                Ends(Classify(o.code), Kept(o, {"teku", "eth2spec"}))
       ELSE Ends("2", output[AtHand][Block])

\* Eth2spec only takes blocks.  A client that is not there keeps the status it was
\* made with; its handler needs the command of the client before.
NotRun ==
    /\ AtHand = "eth2spec" \/ (AtHand \notin installed /\ turn # 1)
    /\ Ends("None", output[AtHand][Block])

\* process_clients_operation.
RunOnOperation ==
    /\ Running("operation")
    /\ \/ /\ AtHand \in installed \ {"eth2spec"}
          /\ \E o \in Outcomes(AtHand, Block) : Ends(Classify(o.code), Kept(o, {"teku"}))
       \/ NotRun

\* process_clients_epoch_processing.
RunOnEpoch ==
    /\ Running("epoch")
    /\ \/ /\ AtHand \in installed \ {"eth2spec"}
          /\ \E o \in Outcomes(AtHand, Block) : Ends(Classify(o.code), Kept(o, {"teku"}))
       \/ NotRun

\* process_clients_sanity_slots: the exit code itself is the status.
RunOnSlots ==
    /\ Running("slots")
    /\ \/ /\ AtHand \in installed \ {"eth2spec"}
          /\ \E o \in Outcomes(AtHand, Block) : Ends(o.code, Kept(o, {"teku"}))
       \/ NotRun

\* The first client is not there: outside of blocks, its handler names a command
\* that was never set, and the case is given up.
Abort ==
    /\ phase = "clients"
    /\ turn = 1 /\ Tools[1] \notin installed
    /\ config.kind # "blocks"
    /\ phase' = "idle"
    /\ run' = run + 1
    /\ UNCHANGED <<config, installed, pairs, done, turn, pre, output, status, successful,
                   differences>>

\* All clients were run on a pair.
PairRun ==
    /\ phase = "clients"
    /\ turn \notin DOMAIN Tools

\* The pair is recorded, and the run goes on with the rest of the pairs.
EndPair(rest) ==
    /\ PairRun
    /\ successful' =
         [b \in Blocks |->
             IF b \in RecordedAs(Block) /\ Succeeded(Block) # {}
             THEN Succeeded(Block) ELSE successful[b]]
    /\ done' = done \cup {Block}
    /\ pairs' = rest
    /\ phase' = IF rest = <<>> THEN "compare" ELSE "clients"
    /\ turn' = 1
    /\ UNCHANGED <<config, installed, run, output, status, differences>>

\* Every pair starts from its own state.
EndIndependent ==
    /\ config.kind = "blocks" /\ ~Sequential
    /\ EndPair(Tail(pairs))
    /\ UNCHANGED pre

\* A sequential run goes on from the state of the first client that succeeded.
EndSequential ==
    /\ PairRun
    /\ Sequential
    /\ MayFollow(Block) # {}
    /\ EndPair(Tail(pairs))
    /\ \E i \in MayFollow(Block) :
           /\ \A j \in MayFollow(Block) : i <= j
           /\ pre' = IF Tail(pairs) = <<>> THEN pre ELSE output[Tools[i]][Block]

\* No client succeeded: the pairs that are left are not run.
BreakChain ==
    /\ PairRun
    /\ Sequential
    /\ MayFollow(Block) = {}
    /\ EndPair(<<>>)
    /\ UNCHANGED pre

EndOne(kind) ==
    /\ config.kind = kind
    /\ EndPair(<<>>)
    /\ UNCHANGED pre

EndOperation == EndOne("operation")
EndEpoch == EndOne("epoch")
EndSlots == EndOne("slots")

WriteDifferences ==
    /\ phase = "compare"
    /\ differences' = Compare
    /\ phase' = "reported"
    /\ run' = run + 1
    /\ UNCHANGED <<config, installed, pairs, done, turn, pre, output, status, successful>>

\* The program is killed; what the clients wrote stays.
Killed ==
    /\ phase \in {"clients", "compare"}
    /\ phase' = "idle"
    /\ run' = run + 1
    /\ UNCHANGED <<config, installed, pairs, done, turn, pre, output, status, successful,
                   differences>>

Next ==
    \/ \E case \in Cases :
        StartBlocks(case) \/ StartOperation(case) \/ StartEpoch(case) \/ StartSlots(case)
    \/ RunOnBlock \/ RunOnOperation \/ RunOnEpoch \/ RunOnSlots \/ Abort
    \/ EndIndependent \/ EndSequential \/ BreakChain
    \/ EndOperation \/ EndEpoch \/ EndSlots
    \/ WriteDifferences \/ Killed

Spec == Init /\ [][Next]_vars

-----------------------------------------------------------------------------
(* Properties *)

\* Types: statuses are labels the program prints, files are what clients leave.
TypeOK ==
    /\ config \in Config
    /\ installed \in SUBSET Clients
    /\ run \in 1..MaxRuns + 1
    /\ phase \in {"idle", "clients", "compare", "reported"}
    /\ phase \in {"clients", "compare"} => run <= MaxRuns
    /\ pairs \in Seq(Blocks)
    /\ phase = "clients" => pairs # <<>>
    /\ done \in SUBSET Blocks
    /\ turn \in 1..Len(Tools) + 1
    /\ pre \in Files
    /\ output \in [Clients -> [Blocks -> Files]]
    /\ status \in [Blocks -> [Clients ->
            {"0", "1", "2", "None"} \cup IF config.kind = "slots" THEN FailCodes ELSE {}]]
    /\ successful \in [Blocks -> SUBSET Clients]

\* Clients that succeeded on a pair and computed different states are reported,
\* by the comparison and by check_postState.py, whatever older files lie in the
\* directory.  (Of a case with several pre_*, chained, all pairs are recorded
\* under one index, and this does not hold.)
DifferencesReported ==
    phase = "reported" /\ ~(Sequential /\ config.format = "multi") =>
        \A block \in done : \A a, b \in Succeeded(block) :
            output[a][block] # output[b][block] =>
                /\ block \in DOMAIN differences
                /\ <<a, b>> \in differences[block].differ
                /\ PostStateListed(block)

\* A chained run starts each pair from what a client that succeeded in this run
\* made of all the pairs before it: never from a state that is old, partial, or
\* has skipped a pair.
ChainOfSuccesses ==
    phase = "clients" /\ Sequential =>
        /\ pre.size = "full"
        /\ Len(pre.steps) = Cardinality(done)
        /\ {pre.steps[i][1] : i \in DOMAIN pre.steps} = done
        /\ done # {} =>
             \E block \in done : \E c \in Succeeded(block) : pre = output[c][block]

\* A pair on which one client succeeded and another failed is listed by
\* check_results.py; but of slots, a client that was killed is not seen.
SplitListed ==
    phase = "reported" =>
        \A block \in done : \A a, b \in Clients :
            /\ status[block][a] = "0"
            /\ status[block][b] \notin {"0", "None", "-11"}
            => MismatchListed(block)
=============================================================================
