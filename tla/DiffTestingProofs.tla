------------------------- MODULE DiffTestingProofs -------------------------
(***************************************************************************)
(* Proofs about DiffTesting, for any clients, files, installations and     *)
(* number of runs.                                                         *)
(***************************************************************************)
EXTENDS DiffTesting, FiniteSetTheorems, TLAPS

-----------------------------------------------------------------------------
(* The invariant *)

\* What the program prints for a client.
Labels == {"0", "1", "2", "None"} \cup IF config.kind = "slots" THEN FailCodes ELSE {}

\* A state that a client may have made of the pair at hand.
MadeOf(file) ==
    /\ file.size = "full"
    /\ \E v \in Variants : file.steps = Append(pre.steps, <<Block, v>>)

\* No pair comes twice, and none that is still to come was run.
Distinct ==
    /\ \A i, j \in DOMAIN pairs : i # j => pairs[i] # pairs[j]
    /\ \A i \in DOMAIN pairs : pairs[i] \notin done

\* What is still to come has no status.
Untouched ==
    phase = "clients" =>
        \A block \in Blocks : block \notin done /\ block # Block =>
            \A c \in Clients : status[block][c] = "None"

\* A client that succeeded has a whole file, though the directory is never cleared.
Whole ==
    phase # "idle" =>
        \A block \in Blocks : \A c \in Clients :
            status[block][c] = "0" => output[c][block].size = "full"

\* The file of a client that succeeded on the pair at hand was made of it.
Follows ==
    phase = "clients" => \A c \in Clients : status[Block][c] = "0" => MadeOf(output[c][Block])

OneIndex == Sequential /\ config.format = "multi"

\* What is recorded as successful is what succeeded, or nothing.
Listed ==
    phase # "idle" /\ ~OneIndex =>
        /\ \A block \in done : successful[block] \in {{}, Succeeded(block)}
        /\ \A block \in Blocks \ done : successful[block] = {}

\* What is reported is what the files are.
Reported == phase = "reported" => differences = Compare

IInv ==
    /\ TypeOK /\ IsFiniteSet(done)
    /\ Distinct /\ Untouched /\ Whole /\ Follows /\ Listed /\ ChainOfSuccesses /\ Reported

-----------------------------------------------------------------------------
(* The steps, by what they do *)

Starting ==
    \E case \in Cases :
        StartBlocks(case) \/ StartOperation(case) \/ StartEpoch(case) \/ StartSlots(case)

OneRuns == RunOnBlock \/ RunOnOperation \/ RunOnEpoch \/ RunOnSlots

Ending ==
    EndIndependent \/ EndSequential \/ BreakChain \/ EndOperation \/ EndEpoch \/ EndSlots

\* Clients, codes and files are what the assumption says.
LEMMA ClientAtHand ==
    ASSUME turn \in DOMAIN Tools PROVE AtHand \in Clients
  BY DEF AtHand, Clients

\* Outcomes of a client are typed, and a success comes with a state.
LEMMA OutcomeTyped ==
    ASSUME TypeOK, phase = "clients", NEW c \in Clients, NEW o \in Outcomes(c, Block)
    PROVE  /\ o.code \in {"0"} \cup FailCodes
           /\ o.file \in Files
           /\ o.code = "0" => MadeOf(o.file)
  <1>1. Block \in Blocks /\ pre.steps \in Seq(Blocks \X Variants)
    BY DEF TypeOK, Block, Files
  <1>2. \A v \in Variants : Append(pre.steps, <<Block, v>>) \in Seq(Blocks \X Variants)
    BY <1>1
  <1>3. \A v \in Variants : File("full", Append(pre.steps, <<Block, v>>)) \in Files
    BY <1>2 DEF File, Files
  <1>4. << >> \in Seq(Blocks \X Variants)
    OBVIOUS
  <1>5. Nothing("empty") \in Files /\ Nothing("partial") \in Files
    BY <1>4 DEF Nothing, File, Files
  <1>6. output[c][Block] \in Files
    BY <1>1 DEF TypeOK
  <1>7. "right" \in Variants /\ "wrong" \in Variants
    BY DEF Variants
  <1>8. "0" \notin FailCodes
    BY DiffAssumption
  <1>9. CASE o.code = "0"
    <2>1. \E v \in Variants : o.file = File("full", Append(pre.steps, <<Block, v>>))
      BY <1>7, <1>8, <1>9 DEF Outcomes
    <2> QED
      BY <1>3, <1>9, <2>1 DEF MadeOf, File
  <1>10. CASE o.code # "0"
    BY <1>3, <1>5, <1>6, <1>7, <1>10 DEF Outcomes
  <1> QED
    BY <1>9, <1>10

\* What is left of a file after the cleanup.
LEMMA KeptTyped ==
    ASSUME TypeOK, phase = "clients", turn \in DOMAIN Tools,
           NEW o \in Outcomes(AtHand, Block), NEW cleaned
    PROVE  /\ Kept(o, cleaned) \in Files
           /\ o.code = "0" => MadeOf(Kept(o, cleaned))
  <1>1. o.file \in Files /\ (o.code = "0" => MadeOf(o.file))
    BY ClientAtHand, OutcomeTyped
  <1>2. << >> \in Seq(Blocks \X Variants)
    OBVIOUS
  <1>3. Nothing("absent") \in Files
    BY <1>2 DEF Nothing, File, Files
  <1> QED
    BY <1>1, <1>3 DEF Kept

\* A client that is run ends with a label and a file; a success leaves a state.
LEMMA RunEnds ==
    ASSUME TypeOK, OneRuns
    PROVE  /\ phase = "clients" /\ turn \in DOMAIN Tools
           /\ \E label \in Labels, file \in Files :
                Ends(label, file) /\ (label = "0" => MadeOf(file))
  <1>1. phase = "clients" /\ turn \in DOMAIN Tools
    BY DEF OneRuns, RunOnBlock, RunOnOperation, RunOnEpoch, RunOnSlots, Running
  <1>2. output[AtHand][Block] \in Files
    BY <1>1, ClientAtHand DEF TypeOK, Block
  <1>3. \A o \in Outcomes(AtHand, Block) :
            /\ o.code \in {"0"} \cup FailCodes
            /\ Classify(o.code) \in {"0", "1", "2"}
            /\ Classify(o.code) = "0" => o.code = "0"
    BY <1>1, ClientAtHand, OutcomeTyped DEF Classify
  <1>4. \A o \in Outcomes(AtHand, Block) : \A cleaned :
            Kept(o, cleaned) \in Files /\ (o.code = "0" => MadeOf(Kept(o, cleaned)))
    BY <1>1, KeptTyped
  <1>5. NotRun => Ends("None", output[AtHand][Block])
    BY DEF NotRun
  <1>6. CASE RunOnBlock
    BY <1>1, <1>2, <1>3, <1>4, <1>6 DEF RunOnBlock, Labels
  <1>7. CASE RunOnOperation
    BY <1>1, <1>2, <1>3, <1>4, <1>5, <1>7 DEF RunOnOperation, Labels
  <1>8. CASE RunOnEpoch
    BY <1>1, <1>2, <1>3, <1>4, <1>5, <1>8 DEF RunOnEpoch, Labels
  <1>9. CASE RunOnSlots
    <2>1. "None" \in Labels /\ {"0"} \cup FailCodes \subseteq Labels
      BY <1>9 DEF RunOnSlots, Running, Labels
    <2>2. CASE NotRun
      BY <1>1, <1>2, <1>5, <2>1, <2>2
    <2>3. CASE \E o \in Outcomes(AtHand, Block) : Ends(o.code, Kept(o, {"teku"}))
      <3>1. PICK o \in Outcomes(AtHand, Block) : Ends(o.code, Kept(o, {"teku"}))
        BY <2>3
      <3>2. o.code \in Labels /\ Kept(o, {"teku"}) \in Files
        BY <1>3, <1>4, <2>1
      <3>3. o.code = "0" => MadeOf(Kept(o, {"teku"}))
        BY <1>4
      <3> QED
        BY <1>1, <3>1, <3>2, <3>3
    <2> QED
      BY <1>9, <2>2, <2>3 DEF RunOnSlots
  <1> QED
    BY <1>6, <1>7, <1>8, <1>9 DEF OneRuns

-----------------------------------------------------------------------------
(* Each step keeps the invariant *)

\* Seq and its parts.
LEMMA TailTyped ==
    ASSUME NEW S, NEW s \in Seq(S), s # << >>
    PROVE  /\ Tail(s) \in Seq(S) /\ Head(s) \in S /\ 1 \in DOMAIN s /\ Head(s) = s[1]
           /\ \A i \in DOMAIN Tail(s) : i + 1 \in DOMAIN s /\ Tail(s)[i] = s[i + 1] /\ i + 1 # 1
  OBVIOUS

LEMMA AppendTyped ==
    ASSUME NEW S, NEW s \in Seq(S), NEW e \in S
    PROVE  /\ Len(s) + 1 \in DOMAIN Append(s, e)
           /\ Append(s, e)[Len(s) + 1] = e
           /\ \A i \in DOMAIN s : i \in DOMAIN Append(s, e) /\ Append(s, e)[i] = s[i]
           /\ \A i \in DOMAIN Append(s, e) : i \in DOMAIN s \/ i = Len(s) + 1
  OBVIOUS

\* A case begins with nothing run and nothing recorded.
LEMMA BeginKeeps ==
    ASSUME IInv, NEW case \in Cases, Begin(case) PROVE IInv'
  <1>1. case \in Seq(Blocks) /\ \A i, j \in DOMAIN case : i < j => case[i] < case[j]
    BY DiffAssumption
  <1>2. \A i \in DOMAIN case : case[i] \in Nat /\ i \in Nat
    <2>1. DOMAIN case = 1..Len(case) /\ Len(case) \in Nat
      BY <1>1
    <2>2. \A i \in DOMAIN case : case[i] \in Blocks
      BY <1>1
    <2>3. Blocks \subseteq Nat
      BY DiffAssumption
    <2> SUFFICES ASSUME NEW i \in DOMAIN case PROVE case[i] \in Nat /\ i \in Nat
      OBVIOUS
    <2>4. i \in Nat
      BY <2>1
    <2>5. case[i] \in Nat
      BY <2>2, <2>3
    <2> QED
      BY <2>4, <2>5
  <1>3. \A i, j \in DOMAIN case : i # j => case[i] # case[j]
    BY <1>1, <1>2
  <1>4. << >> \in Seq(Blocks \X Variants)
    OBVIOUS
  <1>5. Initial \in Files
    BY <1>4 DEF Initial, File, Files
  <1>6. TypeOK'
    <2>1. Len(Tools) \in Nat /\ 1 \in 1..Len(Tools) + 1
      BY DiffAssumption
    <2>2. NoStatus \in [Blocks -> [Clients -> {"None"}]]
      BY DEF NoStatus
    <2>3. pairs' \in Seq(Blocks) /\ (phase' = "clients" => pairs' # <<>>)
      BY <1>1 DEF Begin
    <2>4. /\ phase' \in {"idle", "clients", "compare", "reported"}
          /\ run' = run /\ (phase' \in {"clients", "compare"} => run' <= MaxRuns)
      BY DEF Begin
    <2>5. status' \in [Blocks -> [Clients ->
            {"0", "1", "2", "None"} \cup IF config'.kind = "slots" THEN FailCodes ELSE {}]]
      BY <2>2 DEF Begin
    <2>6. successful' \in [Blocks -> SUBSET Clients]
      BY DEF Begin
    <2> QED
      BY <1>5, <2>1, <2>3, <2>4, <2>5, <2>6 DEF IInv, TypeOK, Begin
  <1>7. IsFiniteSet(done') /\ done' = {}
    BY FS_EmptySet DEF Begin
  <1>8. Distinct'
    BY <1>3 DEF Distinct, Begin
  <1>9. \A block \in Blocks : \A c \in Clients : status'[block][c] = "None"
    BY DEF Begin, NoStatus
  <1>10. Untouched' /\ Whole'
    BY <1>9 DEF Untouched, Whole
  <1>11. phase' = "clients" => Block' \in Blocks
    BY <1>6 DEF TypeOK, Block
  <1>12. Follows'
    BY <1>9, <1>11 DEF Follows
  <1>13. Listed'
    BY <1>7 DEF Listed, Begin
  <1>14. ChainOfSuccesses'
    BY <1>7, FS_EmptySet DEF ChainOfSuccesses, Begin, Initial, File
  <1>15. Reported'
    BY DEF Reported, Begin
  <1> QED
    BY <1>6, <1>7, <1>8, <1>10, <1>12, <1>13, <1>14, <1>15 DEF IInv

\* A client ends: only its own status and file of the pair at hand change.
LEMMA RunKeeps ==
    ASSUME IInv, OneRuns PROVE IInv'
  <1>1. TypeOK
    BY DEF IInv
  <1>2. phase = "clients" /\ turn \in DOMAIN Tools
    BY <1>1, RunEnds
  <1>3. PICK label \in Labels, file \in Files :
            Ends(label, file) /\ (label = "0" => MadeOf(file))
    BY <1>1, RunEnds
  <1>4. AtHand \in Clients /\ Block \in Blocks
    BY <1>1, <1>2, ClientAtHand DEF TypeOK, Block
  <1>5. UNCHANGED <<config, installed, run, phase, pairs, done, pre, successful, differences>>
    BY <1>3 DEF Ends
  <1>6. Block' = Block
    BY <1>5 DEF Block
  <1>7. status' = [status EXCEPT ![Block][AtHand] = label]
    BY <1>3 DEF Ends
  <1>8. output' = [output EXCEPT ![AtHand][Block] = file]
    BY <1>3 DEF Ends
  <1>9. turn' = turn + 1
    BY <1>3 DEF Ends
  <1>10. status \in [Blocks -> [Clients -> Labels]] /\ output \in [Clients -> [Blocks -> Files]]
    BY <1>1 DEF TypeOK, Labels
  <1>11. status' \in [Blocks -> [Clients -> Labels]] /\ output' \in [Clients -> [Blocks -> Files]]
    BY <1>3, <1>4, <1>7, <1>8, <1>10
  <1>12. \A block \in Blocks : \A c \in Clients :
            block # Block \/ c # AtHand =>
                status'[block][c] = status[block][c] /\ output'[c][block] = output[c][block]
    BY <1>4, <1>7, <1>8, <1>10
  <1>13. status'[Block][AtHand] = label /\ output'[AtHand][Block] = file
    BY <1>4, <1>7, <1>8, <1>10
  <1>14. Block \notin done
    BY <1>1, <1>2, TailTyped DEF IInv, Distinct, TypeOK, Block
  <1>15. TypeOK'
    <2>1. turn' \in 1..Len(Tools) + 1
      BY <1>2, <1>9, DiffAssumption
    <2>2. Labels' = Labels
      BY <1>5 DEF Labels
    <2> QED
      BY <1>1, <1>5, <1>11, <2>1, <2>2 DEF TypeOK, Labels
  <1>16. IsFiniteSet(done') /\ Distinct'
    BY <1>5 DEF IInv, Distinct
  <1>17. Untouched'
    BY <1>2, <1>5, <1>6, <1>12 DEF IInv, Untouched
  <1>18. Whole'
    <2> SUFFICES ASSUME NEW block \in Blocks, NEW c \in Clients, status'[block][c] = "0"
                 PROVE  output'[c][block].size = "full"
      BY DEF Whole
    <2>1. CASE block = Block /\ c = AtHand
      BY <1>3, <1>13, <2>1 DEF MadeOf
    <2>2. CASE ~(block = Block /\ c = AtHand)
      BY <1>2, <1>12, <2>2 DEF IInv, Whole
    <2> QED
      BY <2>1, <2>2
  <1>19. Follows'
    <2> SUFFICES ASSUME NEW c \in Clients, status'[Block][c] = "0"
                 PROVE  MadeOf(output[c][Block])'
      BY <1>6 DEF Follows
    <2>1. MadeOf(output'[c][Block])
      BY <1>2, <1>3, <1>4, <1>12, <1>13 DEF IInv, Follows
    <2> QED
      BY <1>5, <1>6, <2>1 DEF MadeOf
  <1>20. \A block \in done : block \in Blocks /\ block # Block /\ Succeeded(block)' = Succeeded(block)
    BY <1>1, <1>12, <1>14 DEF TypeOK, Succeeded
  <1>21. Listed'
    BY <1>2, <1>5, <1>20 DEF IInv, Listed, OneIndex, Sequential
  <1>22. ChainOfSuccesses'
    <2>1. \A block \in done : \A c \in Succeeded(block) : output'[c][block] = output[c][block]
      BY <1>12, <1>20 DEF Succeeded
    <2> QED
      BY <1>2, <1>5, <1>20, <2>1 DEF IInv, ChainOfSuccesses, Sequential
  <1>23. Reported'
    BY <1>2, <1>5 DEF Reported
  <1> QED
    BY <1>15, <1>16, <1>17, <1>18, <1>19, <1>21, <1>22, <1>23 DEF IInv

\* A pair ends: it is recorded, and what is left are pairs that were not run.
LEMMA EndPairKeeps ==
    ASSUME IInv, NEW rest, EndPair(rest),
           rest = << >> \/ rest = Tail(pairs),
           TypeOK', ChainOfSuccesses'
    PROVE  IInv'
  <1>1. TypeOK /\ phase = "clients"
    BY DEF IInv, EndPair, PairRun
  <1>2. pairs \in Seq(Blocks) /\ pairs # << >> /\ Block = pairs[1] /\ Block \in Blocks
    BY <1>1, TailTyped DEF TypeOK, Block
  <1>3. /\ UNCHANGED <<config, installed, run, output, status, differences>>
        /\ done' = done \cup {Block} /\ pairs' = rest
        /\ phase' = IF rest = <<>> THEN "compare" ELSE "clients"
    BY DEF EndPair
  <1>4. \A i \in DOMAIN rest : i + 1 \in DOMAIN pairs /\ rest[i] = pairs[i + 1] /\ i + 1 # 1
    BY <1>2, TailTyped
  <1>5. \A i \in DOMAIN rest : rest[i] # Block /\ rest[i] \notin done
    BY <1>2, <1>4, TailTyped DEF IInv, Distinct
  <1>6. \A i \in DOMAIN rest : i \in Int
    BY <1>2
  <1>7. Distinct'
    <2>1. \A i, j \in DOMAIN rest : i # j => rest[i] # rest[j]
      BY <1>4, <1>6 DEF IInv, Distinct
    <2> QED
      BY <1>3, <1>5, <2>1 DEF Distinct
  <1>8. IsFiniteSet(done')
    BY <1>3, FS_AddElement DEF IInv
  <1>9. phase' = "clients" => Block' \in Blocks /\ Block' # Block /\ Block' \notin done
    <2> SUFFICES ASSUME phase' = "clients" PROVE Block' \in Blocks /\ Block' # Block /\ Block' \notin done
      OBVIOUS
    <2>1. rest # << >> /\ rest \in Seq(Blocks)
      BY <1>2, <1>3, TailTyped
    <2>2. Block' = rest[1] /\ 1 \in DOMAIN rest /\ rest[1] \in Blocks
      BY <1>3, <2>1, TailTyped DEF Block
    <2> QED
      BY <1>5, <2>2
  <1>10. Untouched'
    BY <1>1, <1>3 DEF IInv, Untouched
  <1>11. Whole'
    BY <1>1, <1>3 DEF IInv, Whole
  <1>12. Follows'
    <2> SUFFICES ASSUME phase' = "clients", NEW c \in Clients PROVE status[Block'][c] # "0"
      BY <1>3 DEF Follows
    <2> QED
      BY <1>1, <1>9 DEF IInv, Untouched
  <1>13. Listed'
    <2> SUFFICES ASSUME ~OneIndex
                 PROVE  /\ \A block \in done' : successful'[block] \in {{}, Succeeded(block)}
                        /\ \A block \in Blocks \ done' : successful'[block] = {}
      BY <1>3 DEF Listed, OneIndex, Sequential, Succeeded
    <2>1. RecordedAs(Block) \subseteq {Block}
      BY <1>1 DEF RecordedAs, OneIndex, TypeOK, Config
    <2>2. \A block \in Blocks : successful'[block] =
             IF block \in RecordedAs(Block) /\ Succeeded(Block) # {}
             THEN Succeeded(Block) ELSE successful[block]
      BY DEF EndPair
    <2>3. /\ \A block \in done : successful[block] \in {{}, Succeeded(block)}
          /\ \A block \in Blocks \ done : successful[block] = {}
      BY <1>1 DEF IInv, Listed
    <2>4. done' \subseteq Blocks
      BY <1>1, <1>2, <1>3 DEF TypeOK
    <2>5. \A block \in done' : successful'[block] \in {{}, Succeeded(block)}
      BY <1>2, <1>3, <2>1, <2>2, <2>3, <2>4
    <2>6. \A block \in Blocks \ done' : successful'[block] = {}
      BY <1>3, <2>1, <2>2, <2>3
    <2> QED
      BY <2>5, <2>6
  <1>14. Reported'
    BY <1>3 DEF Reported
  <1> QED
    BY <1>7, <1>8, <1>10, <1>11, <1>12, <1>13, <1>14 DEF IInv

\* Its variables keep their types when the next pair starts from a typed state.
LEMMA EndPairTyped ==
    ASSUME TypeOK, NEW rest, EndPair(rest), rest = << >> \/ rest = Tail(pairs), pre' \in Files
    PROVE  TypeOK'
  <1>1. phase = "clients" /\ pairs \in Seq(Blocks) /\ pairs # << >>
    BY DEF EndPair, PairRun, TypeOK
  <1>2. Block \in Blocks
    BY <1>1, TailTyped DEF Block
  <1>3. rest \in Seq(Blocks)
    <2>1. << >> \in Seq(Blocks)
      OBVIOUS
    <2>2. Tail(pairs) \in Seq(Blocks)
      BY <1>1, TailTyped
    <2> QED
      BY <2>1, <2>2
  <1>4. /\ UNCHANGED <<config, installed, run, output, status>>
        /\ done' = done \cup {Block} /\ pairs' = rest /\ turn' = 1
        /\ phase' = IF rest = <<>> THEN "compare" ELSE "clients"
    BY DEF EndPair
  <1>5. Succeeded(Block) \in SUBSET Clients
    BY DEF Succeeded
  <1>6. successful' \in [Blocks -> SUBSET Clients]
    BY <1>5 DEF EndPair, TypeOK
  <1>7. 1 \in 1..Len(Tools) + 1
    BY DiffAssumption
  <1>8. done' \in SUBSET Blocks
    BY <1>2, <1>4 DEF TypeOK
  <1>9. phase' \in {"idle", "clients", "compare", "reported"} /\ run' <= MaxRuns
    BY <1>1, <1>4 DEF TypeOK
  <1>10. phase' = "clients" => pairs' # << >>
    BY <1>4
  <1> QED
    BY <1>3, <1>4, <1>6, <1>7, <1>8, <1>9, <1>10 DEF TypeOK

\* A chained run goes on from what was made of the pair that ended.
LEMMA ChainGoesOn ==
    ASSUME IInv, EndSequential PROVE TypeOK' /\ ChainOfSuccesses'
  <1>1. TypeOK /\ phase = "clients" /\ Sequential /\ EndPair(Tail(pairs))
    BY DEF IInv, EndSequential, PairRun
  <1>2. PICK i \in MayFollow(Block) :
            pre' = IF Tail(pairs) = <<>> THEN pre ELSE output[Tools[i]][Block]
    BY DEF EndSequential
  <1>3. pairs \in Seq(Blocks) /\ pairs # << >> /\ Block = pairs[1] /\ Block \in Blocks
    BY <1>1, TailTyped DEF TypeOK, Block
  <1>4. Block \notin done
    BY <1>3, TailTyped DEF IInv, Distinct
  <1>5. Tools[i] \in Succeeded(Block) /\ Tools[i] \in Clients /\ status[Block][Tools[i]] = "0"
    BY DEF MayFollow, Succeeded
  <1>6. output[Tools[i]][Block] \in Files
    BY <1>1, <1>3, <1>5 DEF TypeOK
  <1>7. TypeOK'
    BY <1>1, <1>2, <1>6, EndPairTyped DEF TypeOK
  <1>8. MadeOf(output[Tools[i]][Block])
    BY <1>1, <1>5 DEF IInv, Follows
  <1>9. /\ UNCHANGED <<config, output, status>>
        /\ done' = done \cup {Block}
        /\ phase' = IF Tail(pairs) = <<>> THEN "compare" ELSE "clients"
    BY <1>1 DEF EndPair
  <1>10. Sequential'
    BY <1>1, <1>9 DEF Sequential
  <1>11. Cardinality(done') = Cardinality(done) + 1 /\ IsFiniteSet(done)
    BY <1>4, <1>9, FS_AddElement DEF IInv
  <1>12. /\ pre \in Files /\ pre.steps \in Seq(Blocks \X Variants)
         /\ Len(pre.steps) = Cardinality(done)
         /\ {pre.steps[k][1] : k \in DOMAIN pre.steps} = done
    BY <1>1 DEF IInv, TypeOK, ChainOfSuccesses, Files
  <1> DEFINE made == output[Tools[i]][Block]
  <1>13. PICK v \in Variants : made.steps = Append(pre.steps, <<Block, v>>)
    BY <1>8 DEF MadeOf
  <1>14. made.size = "full" /\ made.steps \in Seq(Blocks \X Variants)
    BY <1>6, <1>8 DEF MadeOf, Files
  <1> HIDE DEF made
  <1>15. Len(made.steps) = Cardinality(done')
    BY <1>11, <1>12, <1>13
  <1>16. {made.steps[k][1] : k \in DOMAIN made.steps} = done'
    <2>1. /\ Len(pre.steps) + 1 \in DOMAIN made.steps
          /\ made.steps[Len(pre.steps) + 1] = <<Block, v>>
          /\ \A k \in DOMAIN pre.steps :
                 k \in DOMAIN made.steps /\ made.steps[k] = pre.steps[k]
          /\ \A k \in DOMAIN made.steps : k \in DOMAIN pre.steps \/ k = Len(pre.steps) + 1
      BY <1>3, <1>12, <1>13, AppendTyped
    <2>2. made.steps[Len(pre.steps) + 1][1] = Block
      BY <2>1
    <2>3. \A k \in DOMAIN made.steps : made.steps[k][1] \in done'
      BY <1>9, <1>12, <2>1, <2>2
    <2>4. \A x \in done : \E k \in DOMAIN made.steps : made.steps[k][1] = x
      <3>1. \A x \in done : \E k \in DOMAIN pre.steps : pre.steps[k][1] = x
        BY <1>12
      <3> QED
        BY <2>1, <3>1
    <2>5. \A x \in done' : \E k \in DOMAIN made.steps : made.steps[k][1] = x
      BY <1>9, <2>1, <2>2, <2>4
    <2> QED
      BY <2>3, <2>5
  <1>17. PICK block \in done' : block = Block
    BY <1>9
  <1>18. Tools[i] \in Succeeded(block)' /\ made = output'[Tools[i]][block]
    BY <1>5, <1>9, <1>17 DEF Succeeded, made
  <1>19. ChainOfSuccesses'
    <2> SUFFICES ASSUME phase' = "clients"
                 PROVE  /\ pre'.size = "full"
                        /\ Len(pre'.steps) = Cardinality(done')
                        /\ {pre'.steps[k][1] : k \in DOMAIN pre'.steps} = done'
                        /\ \E b \in done' : \E c \in Succeeded(b)' : pre' = output'[c][b]
      BY DEF ChainOfSuccesses, Succeeded
    <2>1. pre' = made
      BY <1>2, <1>9 DEF made
    <2>2. \E b \in done' : \E c \in Succeeded(b)' : pre' = output'[c][b]
      BY <1>17, <1>18, <2>1
    <2> QED
      BY <1>14, <1>15, <1>16, <2>1, <2>2
  <1> QED
    BY <1>7, <1>19

\* A pair ends, in whichever way the kind of the case asks for.
LEMMA EndKeeps ==
    ASSUME IInv, Ending PROVE IInv'
  <1>1. CASE EndSequential
    <2>1. EndPair(Tail(pairs))
      BY <1>1 DEF EndSequential
    <2> QED
      BY <1>1, <2>1, ChainGoesOn, EndPairKeeps
  <1>2. ASSUME NEW rest, EndPair(rest), rest = << >> \/ rest = Tail(pairs), UNCHANGED pre,
               ~Sequential \/ rest = << >>
        PROVE  IInv'
    <2>1. TypeOK'
      BY <1>2, EndPairTyped DEF IInv, TypeOK
    <2>2. UNCHANGED config /\ phase' = IF rest = <<>> THEN "compare" ELSE "clients"
      BY <1>2 DEF EndPair
    <2>3. ChainOfSuccesses'
      BY <1>2, <2>2 DEF ChainOfSuccesses, Sequential
    <2> QED
      BY <1>2, <2>1, <2>3, EndPairKeeps
  <1>3. CASE EndIndependent
    BY <1>2, <1>3 DEF EndIndependent
  <1>4. CASE BreakChain
    BY <1>2, <1>4 DEF BreakChain
  <1>5. CASE EndOperation \/ EndEpoch \/ EndSlots
    BY <1>2, <1>5 DEF EndOperation, EndEpoch, EndSlots, EndOne
  <1> QED
    BY <1>1, <1>3, <1>4, <1>5 DEF Ending

\* The program stops, with or without its report; the files stay as they are.
LEMMA StopKeeps ==
    ASSUME IInv, Abort \/ Killed \/ WriteDifferences PROVE IInv'
  <1>1. /\ UNCHANGED <<config, installed, pairs, done, turn, pre, output, status, successful>>
        /\ phase \in {"clients", "compare"} /\ phase' \in {"idle", "reported"}
        /\ run' = run + 1
    BY DEF Abort, Killed, WriteDifferences
  <1>2. TypeOK'
    <2>1. run' \in 1..MaxRuns + 1
      BY <1>1, DiffAssumption DEF IInv, TypeOK
    <2> QED
      BY <1>1, <2>1 DEF IInv, TypeOK
  <1>3. IsFiniteSet(done') /\ Distinct'
    BY <1>1 DEF IInv, Distinct
  <1>4. Untouched' /\ Follows' /\ ChainOfSuccesses'
    BY <1>1 DEF Untouched, Follows, ChainOfSuccesses
  <1>5. Whole'
    BY <1>1 DEF IInv, Whole
  <1>6. Listed'
    BY <1>1 DEF IInv, Listed, OneIndex, Sequential, Succeeded
  <1>7. Reported'
    <2>1. phase' = "reported" => differences' = Compare
      BY <1>1 DEF Abort, Killed, WriteDifferences
    <2>2. Compare' = Compare
      BY <1>1 DEF Compare, ToCheck, Differing
    <2> QED
      BY <2>1, <2>2 DEF Reported
  <1> QED
    BY <1>2, <1>3, <1>4, <1>5, <1>6, <1>7 DEF IInv

\* Nothing was run.
LEMMA InitHolds ==
    ASSUME Init PROVE IInv
  <1>1. << >> \in Seq(Blocks \X Variants) /\ << >> \in Seq(Blocks)
    OBVIOUS
  <1>2. Initial \in Files /\ Nothing("absent") \in Files
    BY <1>1 DEF Initial, Nothing, File, Files
  <1>3. Len(Tools) \in Nat /\ 1 \in 1..Len(Tools) + 1 /\ 1 \in 1..MaxRuns + 1
    BY DiffAssumption
  <1>4. config \in Config /\ installed \in SUBSET Clients
    BY DiffAssumption DEF Init
  <1>5. TypeOK
    BY <1>1, <1>2, <1>3, <1>4 DEF Init, TypeOK, NoStatus
  <1>6. IsFiniteSet(done)
    BY FS_EmptySet DEF Init
  <1>7. Distinct
    BY DEF Init, Distinct
  <1>8. phase = "idle"
    BY DEF Init
  <1>9. Untouched /\ Whole /\ Follows /\ Listed /\ ChainOfSuccesses /\ Reported
    BY <1>8 DEF Untouched, Whole, Follows, Listed, ChainOfSuccesses, Reported
  <1> QED
    BY <1>5, <1>6, <1>7, <1>9 DEF IInv

\* Nothing changes.
LEMMA StutterKeeps ==
    ASSUME IInv, UNCHANGED vars PROVE IInv'
  <1>1. TypeOK' /\ IsFiniteSet(done') /\ Distinct'
    BY DEF IInv, TypeOK, Distinct, vars
  <1>2. Untouched' /\ Whole'
    BY DEF IInv, Untouched, Whole, Block, vars
  <1>3. Follows'
    BY DEF IInv, Follows, MadeOf, Block, vars
  <1>4. Listed'
    BY DEF IInv, Listed, OneIndex, Sequential, Succeeded, vars
  <1>5. ChainOfSuccesses'
    BY DEF IInv, ChainOfSuccesses, Sequential, Succeeded, vars
  <1>6. Reported'
    <2>1. Compare' = Compare
      BY DEF Compare, ToCheck, Differing, vars
    <2> QED
      BY <2>1 DEF IInv, Reported, vars
  <1> QED
    BY <1>1, <1>2, <1>3, <1>4, <1>5, <1>6 DEF IInv

LEMMA StepKeeps ==
    ASSUME IInv, [Next]_vars PROVE IInv'
  <1>1. CASE Starting
    <2>1. PICK case \in Cases : Begin(case)
      BY <1>1 DEF Starting, StartBlocks, StartOperation, StartEpoch, StartSlots, StartOne
    <2> QED
      BY <2>1, BeginKeeps
  <1>2. CASE OneRuns
    BY <1>2, RunKeeps
  <1>3. CASE Ending
    BY <1>3, EndKeeps
  <1>4. CASE Abort \/ Killed \/ WriteDifferences
    BY <1>4, StopKeeps
  <1>5. CASE UNCHANGED vars
    BY <1>5, StutterKeeps
  <1> QED
    BY <1>1, <1>2, <1>3, <1>4, <1>5 DEF Next, Starting, OneRuns, Ending

\* The invariant holds of every run of the program.
LEMMA IInvHolds == Spec => []IInv
  <1>1. Init => IInv
    BY InitHolds
  <1>2. IInv /\ [Next]_vars => IInv'
    BY StepKeeps
  <1> QED
    BY <1>1, <1>2, PTL DEF Spec

-----------------------------------------------------------------------------
(* Theorems *)

\* Statuses are labels the program prints, and files are what clients leave.
THEOREM TypeCorrect == Spec => []TypeOK
  <1>1. IInv => TypeOK
    BY DEF IInv
  <1> QED
    BY <1>1, IInvHolds, PTL

\* A chained run starts each pair from what a client that succeeded in this run made
\* of all the pairs before it, for any clients, failures and older files.
THEOREM ChainAlwaysOfSuccesses == Spec => []ChainOfSuccesses
  <1>1. IInv => ChainOfSuccesses
    BY DEF IInv
  <1> QED
    BY <1>1, IInvHolds, PTL

\* Clients that succeeded and computed different states are always reported, by the
\* comparison and by check_postState.py.
THEOREM DifferencesAlwaysReported == Spec => []DifferencesReported
  <1>1. IInv => DifferencesReported
    <2> SUFFICES ASSUME IInv, phase = "reported", ~OneIndex,
                        NEW block \in done, NEW a \in Succeeded(block), NEW b \in Succeeded(block),
                        output[a][block] # output[b][block]
                 PROVE  /\ block \in DOMAIN differences
                        /\ <<a, b>> \in differences[block].differ
                        /\ PostStateListed(block)
      BY DEF DifferencesReported, OneIndex
    <2>1. a \in Clients /\ b \in Clients /\ status[block][a] = "0" /\ status[block][b] = "0"
      BY DEF Succeeded
    <2>2. block \in Blocks
      BY DEF IInv, TypeOK
    <2>3. output[a][block].size = "full" /\ output[b][block].size = "full"
      BY <2>1, <2>2 DEF IInv, Whole
    <2>4. {a, b} \subseteq ToCheck(block)
      BY <2>1 DEF IInv, Listed, ToCheck
    <2>5. PostStateListed(block)
      BY <2>1, <2>3 DEF PostStateListed, Readable
    <2>6. differences = Compare
      BY DEF IInv, Reported
    <2>7. block \in {x \in Blocks : \E c \in Clients : output[c][x].size # "absent"}
      BY <2>1, <2>2, <2>3
    <2>8. block \in DOMAIN Compare
      BY <2>7 DEF Compare
    <2> DEFINE file == [c \in Clients |-> output[c][block]]
               read == {c \in ToCheck(block) : Readable(output[c][block])}
    <2>9. Compare[block].differ = Differing(read, file)
      BY <2>7 DEF Compare
    <2>10. a \in read /\ b \in read
      BY <2>3, <2>4 DEF Readable
    <2>11. file[a] # file[b]
      BY <2>1
    <2> HIDE DEF file, read
    <2>12. <<a, b>> \in Differing(read, file)
      BY <2>10, <2>11 DEF Differing
    <2> QED
      BY <2>5, <2>6, <2>8, <2>9, <2>12
  <1> QED
    BY <1>1, IInvHolds, PTL

\* A pair on which a client succeeded and another failed is always listed.
THEOREM SplitAlwaysListed == Spec => []SplitListed
  <1>1. TypeOK => SplitListed
    <2> SUFFICES ASSUME TypeOK, phase = "reported",
                        NEW block \in done, NEW a \in Clients, NEW b \in Clients,
                        status[block][a] = "0", status[block][b] \notin {"0", "None", "-11"}
                 PROVE  MismatchListed(block)
      BY DEF SplitListed
    <2>1. status[block][b] \in {"0", "1", "2", "None"} \cup FailCodes
      BY DEF TypeOK
    <2>2. status[block][b] \in {"1", "2", "101"}
      BY <2>1, DiffAssumption
    <2>3. ParseStatus("0") = "0"
      BY Zenon DEF ParseStatus
    <2>4. ParseStatus(status[block][b]) \in {"1", "2"}
      BY <2>2 DEF ParseStatus
    <2>5. {"0", ParseStatus(status[block][b])} \subseteq Parsed(block)
      BY <2>3, <2>4 DEF Parsed
    <2> QED
      BY <2>4, <2>5 DEF MismatchListed
  <1> QED
    BY <1>1, TypeCorrect, PTL
=============================================================================
