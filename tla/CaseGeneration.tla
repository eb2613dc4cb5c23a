--------------------------- MODULE CaseGeneration ---------------------------
(***************************************************************************)
(* generate_json_test_cases.py on one directory of the official suite: the *)
(* blocks or operations of a case become JSON cases of their own, each     *)
(* with the state it starts from and the state, or the error, it leads to. *)
(*                                                                         *)
(* The program may be killed between any two files, and is run again: what *)
(* is there already is skipped.                                            *)
(***************************************************************************)
EXTENDS Naturals, Sequences, FiniteSets

CONSTANTS
    Steps,          \* the number of blocks or operations of the case
    Listings,       \* the lists of them that may be decompressed, ascending
    Relations,      \* what a specification may accept: pairs of a state and a step
    Kinds,          \* the kinds of case that are generated
    MaxRuns         \* bound: the runs of the program

ASSUME GenerationAssumption ==
    /\ Steps \in Nat \ {0}
    /\ Listings \subseteq Seq(1..Steps) \ {<<>>}
    /\ \A s \in Listings : \A i, j \in DOMAIN s : i < j => s[i] < s[j]
    /\ Kinds \subseteq {"block", "operation", "epoch", "slots"}
    /\ MaxRuns \in Nat

\* A state is the list of the steps that led to it.
States == Seq(1..Steps)
Initial == <<>>

\* A file is not there, cut short, or whole; an error is a post file of its own.
CaseFile(kind, state) == [kind |-> kind, state |-> state]
Absent == CaseFile("absent", <<>>)
Torn(file) == CaseFile("torn", file.state)

\* The directories of the generated cases: a step, or 0, and its place, or 0.
Names == (0..Steps) \X (0..Steps)

VARIABLES
    kind,           \* of the case: blocks, operations of several types, and so on
    accepted,       \* the pairs of a state and a step that the specification accepts
    hasPost,        \* the suite holds the state after all steps
    run,            \* how often the program was started
    stage,          \* what it does
    steps,          \* the steps that were decompressed
    pos,            \* the step at hand, a position in steps
    current,        \* current_pre
    made,           \* what was computed for the step at hand
    cases,          \* what the directories hold; the input is 0 when it is not whole
    errors,         \* whether the run met an error
    fresh           \* history: whether the run began with no case at all

caseVars == <<kind, accepted, hasPost, run, stage, steps, pos, current, made, cases, errors, fresh>>

-----------------------------------------------------------------------------
(* Names, and what is skipped *)

Single == Len(steps) = 1

Chainable == {"block", "operation"}

\* The state that the suite holds for after all steps; an epoch or some slots are one.
Final == IF kind \in Chainable THEN [i \in 1..Steps |-> i] ELSE <<1>>

\* Blocks are numbered as in the suite, unless there is one.  Operations lie in the
\* directory of their type, and are numbered by their place in the list.
NameAt(i) ==
    IF kind = "operation" THEN <<steps[i], IF Single THEN 0 ELSE i>>
    ELSE <<IF Single THEN 0 ELSE steps[i], 0>>

\* The names of cases of one step.
SingleNames == IF kind = "operation" THEN (0..Steps) \X {0} ELSE {<<0, 0>>}

\* The step at hand.
Input == steps[pos]

Empty == [pre |-> Absent, input |-> 0, post |-> Absent]

\* _should_skip_test: a case is there when the state before and the one after are.
Exists(name) == cases[name].pre # Absent /\ cases[name].post # Absent

-----------------------------------------------------------------------------
(* The steps of a run *)

CaseInit ==
    /\ kind \in Kinds
    /\ accepted \in Relations
    /\ hasPost \in BOOLEAN
    /\ hasPost => \A i \in DOMAIN Final : <<[j \in 1..i - 1 |-> j], i>> \in accepted
    /\ run = 1
    /\ stage = "idle"
    /\ steps = <<>> /\ pos = 1
    /\ current = Initial
    /\ made = Absent
    /\ cases = [n \in Names |-> Empty]
    /\ errors = FALSE
    /\ fresh = TRUE

\* The files of a case are decompressed, those of the steps in the list at least.
Begin(listing, incomplete) ==
    /\ stage \in {"idle", "ended"}
    /\ run <= MaxRuns
    /\ steps' = listing
    /\ pos' = 1
    /\ current' = Initial
    /\ made' = Absent
    /\ errors' = incomplete
    /\ fresh' = (cases = [n \in Names |-> Empty])
    /\ stage' = "step"
    /\ UNCHANGED <<kind, accepted, hasPost, run, cases>>

\* A step that cannot be decompressed is left out.
StartBlocks(listing) == kind = "block" /\ Begin(listing, Len(listing) < Steps)

StartOperations(listing) == kind = "operation" /\ Begin(listing, Len(listing) < Steps)

\* An epoch has no file of its own, slots have one with a number.
StartEpoch == kind = "epoch" /\ Begin(<<1>>, FALSE)

StartSlots == kind = "slots" /\ Begin(<<1>>, FALSE)

\* The states of the suite cannot be read or converted.
StartFails ==
    /\ stage \in {"idle", "ended"}
    /\ run <= MaxRuns
    /\ stage' = "idle"
    /\ run' = run + 1
    /\ UNCHANGED <<kind, accepted, hasPost, steps, pos, current, made, cases, errors, fresh>>

\* A fault: the position is moved by the loop and by its body.
OnwardTwice ==
    /\ pos' = pos + 2
    /\ stage' = "step"

Onward ==
    /\ pos' = pos + 1
    /\ stage' = "step"

\* The case is there: the next one is made from the state this one was made from.
Skip ==
    /\ stage = "step"
    /\ pos \in DOMAIN steps
    /\ Exists(NameAt(pos))
    /\ Onward
    /\ UNCHANGED <<kind, accepted, hasPost, run, steps, current, made, cases, errors, fresh>>

\* The step cannot be converted.
ConvertFails ==
    /\ stage = "step"
    /\ kind \in Chainable
    /\ pos \in DOMAIN steps
    /\ ~Exists(NameAt(pos))
    /\ Onward
    /\ errors' = TRUE
    /\ UNCHANGED <<kind, accepted, hasPost, run, steps, current, made, cases, fresh>>

\* The specification takes the step in this state.
Accepts(state, step) == <<state, step>> \in accepted

\* A fault: every step is executed in the state of the suite.
ExecutedAlone ==
    IF Accepts(Initial, Input)
    THEN CaseFile("post", Append(Initial, Input)) ELSE CaseFile("error", <<>>)

\* What the specification makes of the step at hand.
Executed ==
    IF Accepts(current, Input)
    THEN CaseFile("post", Append(current, Input)) ELSE CaseFile("error", <<>>)

\* The state of the suite stands for the result when there is one step; otherwise,
\* or when it cannot be decompressed, the specification is run.  A specification
\* that cannot run at all looks like one that rejects.
Compute ==
    /\ stage = "step"
    /\ pos \in DOMAIN steps
    /\ ~Exists(NameAt(pos))
    /\ \/ Single /\ hasPost /\ made' = CaseFile("post", Final)
       \/ /\ kind # "slots"
          /\ made' \in {Executed, CaseFile("error", <<>>)}
    /\ stage' = "pre"
    /\ UNCHANGED <<kind, accepted, hasPost, run, steps, pos, current, cases, errors, fresh>>

\* Slots without a state in the suite: the method that would run them does not
\* exist, and the program ends.
SlotsUnsupported ==
    /\ stage = "step"
    /\ kind = "slots"
    /\ pos \in DOMAIN steps
    /\ ~Exists(NameAt(pos))
    /\ stage' = "idle"
    /\ run' = run + 1
    /\ UNCHANGED <<kind, accepted, hasPost, steps, pos, current, made, cases, errors, fresh>>

\* The result cannot be converted.  Epochs and slots are written all the same.
PostFails ==
    /\ stage = "step"
    /\ pos \in DOMAIN steps
    /\ ~Exists(NameAt(pos))
    /\ (Single /\ hasPost) \/ (kind # "slots" /\ Executed.kind = "post")
    /\ errors' = TRUE
    /\ made' = Absent
    /\ IF kind \in {"epoch", "slots"} THEN stage' = "pre" /\ UNCHANGED pos ELSE Onward
    /\ UNCHANGED <<kind, accepted, hasPost, run, steps, current, cases, fresh>>

\* The three files are copied one after the other.
CopyPre ==
    /\ stage = "pre"
    /\ cases' = [cases EXCEPT ![NameAt(pos)].pre = CaseFile("pre", current)]
    /\ stage' = "input"
    /\ UNCHANGED <<kind, accepted, hasPost, run, steps, pos, current, made, errors, fresh>>

\* An epoch has no input of its own.
CopyInput ==
    /\ stage = "input"
    /\ cases' = [cases EXCEPT ![NameAt(pos)].input = Input]
    /\ stage' = "post"
    /\ UNCHANGED <<kind, accepted, hasPost, run, steps, pos, current, made, errors, fresh>>

\* A fault: the state before stays that of the suite.
SamePre == current

\* The state that the next step starts from.
NextPre == IF ~Single /\ made.kind = "post" THEN made.state ELSE current

\* After an error the steps that follow are not made.
CopyPost ==
    /\ stage = "post"
    /\ made # Absent
    /\ cases' = [cases EXCEPT ![NameAt(pos)].post = made]
    /\ current' = NextPre
    /\ pos' = IF made.kind = "error" THEN Len(steps) + 1 ELSE pos + 1
    /\ stage' = "step"
    /\ UNCHANGED <<kind, accepted, hasPost, run, steps, made, errors, fresh>>

\* What could not be converted is not there to be copied: the program ends.
CopyNothing ==
    /\ stage = "post"
    /\ made = Absent
    /\ stage' = "idle"
    /\ run' = run + 1
    /\ UNCHANGED <<kind, accepted, hasPost, steps, pos, current, made, cases, errors, fresh>>

End ==
    /\ stage = "step"
    /\ pos \notin DOMAIN steps
    /\ stage' = "ended"
    /\ run' = run + 1
    /\ UNCHANGED <<kind, accepted, hasPost, steps, pos, current, made, cases, errors, fresh>>

\* The program is killed; the file that is being written may be cut short.
GenerationKilled ==
    /\ stage \in {"step", "pre", "input", "post"}
    /\ \/ stage = "post" /\ made # Absent
          /\ cases' = [cases EXCEPT ![NameAt(pos)].post = Torn(made)]
       \/ stage = "pre"
          /\ cases' = [cases EXCEPT ![NameAt(pos)].pre = Torn(CaseFile("pre", current))]
       \/ stage = "input" /\ kind # "epoch"
          /\ cases' = [cases EXCEPT ![NameAt(pos)].input = 0]
       \/ UNCHANGED cases
    /\ stage' = "idle"
    /\ run' = run + 1
    /\ UNCHANGED <<kind, accepted, hasPost, steps, pos, current, made, errors, fresh>>

CaseNext ==
    \/ \E listing \in Listings : StartBlocks(listing) \/ StartOperations(listing)
    \/ StartEpoch \/ StartSlots
    \/ StartFails \/ Skip \/ ConvertFails \/ Compute \/ SlotsUnsupported \/ PostFails
    \/ CopyPre \/ CopyInput \/ CopyPost \/ CopyNothing \/ End \/ GenerationKilled

CaseSpec == CaseInit /\ [][CaseNext]_caseVars

-----------------------------------------------------------------------------
(* Properties *)

\* Types; while a case is made there is a step at hand.
CaseTypeOK ==
    /\ kind \in {"block", "operation", "epoch", "slots"}
    /\ hasPost \in BOOLEAN
    /\ run \in 1..MaxRuns + 1
    /\ stage \in {"idle", "step", "pre", "input", "post", "ended"}
    /\ stage \notin {"idle", "ended"} => run <= MaxRuns
    /\ steps \in Seq(1..Steps)
    /\ pos \in 1..Len(steps) + 1
    /\ stage \in {"pre", "input", "post"} => pos \in DOMAIN steps
    /\ current \in States
    /\ made \in [kind : {"absent", "post", "error"}, state : States]
    /\ cases \in [Names -> [pre : [kind : {"absent", "pre", "torn"}, state : States],
                            input : 0..Steps,
                            post : [kind : {"absent", "post", "error", "torn"}, state : States]]]
    /\ errors \in BOOLEAN
    /\ fresh \in BOOLEAN

\* A case that a later run skips is whole but for a file that was cut short, and
\* the state after it is that of its own input in its own state before.  (Not so
\* when all but one step of a case were left out: the state of the suite is then
\* taken for that of a single step.)
PairConsistent ==
    \A n \in Names : cases[n].post # Absent =>
        /\ cases[n].pre.kind = "pre"
        /\ cases[n].input # 0
        /\ cases[n].post.kind = "post" /\ (kind \in Chainable /\ n \in SingleNames => Steps = 1) =>
             cases[n].post.state = Append(cases[n].pre.state, cases[n].input)

\* The cases of a run that found none and met no error are a chain.
ChainedWhenFresh ==
    stage = "ended" /\ fresh /\ ~errors =>
        \A i \in DOMAIN steps \ {1} :
            cases[NameAt(i)].post # Absent =>
                cases[NameAt(i)].pre.state = cases[NameAt(i - 1)].post.state

\* A run that met no error leaves no step out, up to the first that is rejected.
NoneMissed ==
    stage = "ended" /\ ~errors =>
        \A i \in DOMAIN steps :
            \/ Exists(NameAt(i))
            \/ \E j \in 1..i - 1 : cases[NameAt(j)].post.kind = "error"

\* What a run makes of a case is the chain that the case is, up to the first step
\* that is rejected.
CaseReproduced == ChainedWhenFresh /\ NoneMissed

\* "We assume that either all steps of a sequential test exists or none.  If some
\* exist and some don't, we re-generate": what is generated of a case is a chain.
AllStepsOrNone ==
    stage = "ended" /\ ~errors =>
        \A i \in DOMAIN steps \ {1} :
            cases[NameAt(i)].post.kind = "post" =>
                cases[NameAt(i)].pre.state = cases[NameAt(i - 1)].post.state
=============================================================================
