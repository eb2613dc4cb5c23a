----------------------------- MODULE Withdrawals -----------------------------
(***************************************************************************)
(* The withdrawal sweep.  Every block pays out what the sweep, starting at *)
(* NEXT_WITHDRAWAL_VALIDATOR_INDEX, finds due: the whole balance of those  *)
(* who left, the excess balance of those who stay.  What a payload must    *)
(* hold is computed from the state before any of it is paid.               *)
(*                                                                         *)
(* Between blocks balances grow and shrink, validators join, mature and    *)
(* register an execution address.  Of a validator the sweep only sees      *)
(* whether its withdrawable epoch has come and whether its effective       *)
(* balance is the maximum; both are decided by epoch transitions, and are  *)
(* the environment's choice here.                                          *)
(***************************************************************************)
EXTENDS Integers, Sequences, FiniteSetsExt

CONSTANTS
    GenesisCount,
    MaxValidators,                          \* bound: size of the registry
    Supply,                                 \* bound: all that is ever issued
    MaxBurnt,                               \* bound: all that penalties take
    MAX_EFFECTIVE_BALANCE,
    MAX_WITHDRAWALS_PER_PAYLOAD,
    MAX_VALIDATORS_PER_WITHDRAWALS_SWEEP

ASSUME WithdrawalsAssumption ==
    /\ GenesisCount \in Nat \ {0} /\ MaxValidators \in Nat
    /\ MaxBurnt \in Nat
    /\ MAX_EFFECTIVE_BALANCE \in Nat \ {0}
    /\ Supply \in Nat /\ Supply >= GenesisCount * MAX_EFFECTIVE_BALANCE
    /\ MAX_WITHDRAWALS_PER_PAYLOAD \in Nat \ {0}
    /\ MAX_VALIDATORS_PER_WITHDRAWALS_SWEEP \in Nat \ {0}

VARIABLES
    validators,         \* a function on the validator indices
    balances,           \* their balances
    nextIndex,          \* NEXT_WITHDRAWAL_INDEX
    nextValidator,      \* NEXT_WITHDRAWAL_VALIDATOR_INDEX
    issued,             \* history: deposits and rewards
    burnt,              \* history: penalties
    paid                \* history: the indices and amounts paid, per validator

vars == <<validators, balances, nextIndex, nextValidator, issued, burnt, paid>>

Vids == DOMAIN validators
N == Cardinality(Vids)

-----------------------------------------------------------------------------
(* The sweep over a registry vs with balances bs *)

\* A fault: whoever has an address is paid, before leaving.
IgnoresExit(val, balance) == val.has_eth1_credential /\ balance > 0

is_fully_withdrawable_validator(val, balance) ==
    val.has_eth1_credential /\ val.withdrawable /\ balance > 0

is_partially_withdrawable_validator(val, balance) ==
    val.has_eth1_credential /\ val.full /\ balance > MAX_EFFECTIVE_BALANCE

Withdrawal(index, vid, amount) ==
    [index |-> index, validator_index |-> vid, amount |-> amount]

\* A turn of the loop: vid is looked at, unless the payload is full already.
NextTurn(turn) ==
    LET val     == validators[turn.vid]
        balance == balances[turn.vid]
        after   == (turn.vid + 1) % N
        Pay(x)  == [index |-> turn.index + 1, vid |-> after,
                    acc   |-> Append(turn.acc, Withdrawal(turn.index, turn.vid, x))]
    IN  IF Len(turn.acc) = MAX_WITHDRAWALS_PER_PAYLOAD
        THEN turn
        ELSE IF is_fully_withdrawable_validator(val, balance)
        THEN Pay(balance)
        ELSE IF is_partially_withdrawable_validator(val, balance)
        THEN Pay(balance - MAX_EFFECTIVE_BALANCE)
        ELSE [turn EXCEPT !.vid = after]

expected_withdrawals_loop(index, vid, bound) ==
    LET turns[i \in 0..bound] ==
            IF i = 0 THEN [index |-> index, vid |-> vid, acc |-> <<>>]
            ELSE NextTurn(turns[i - 1])
    IN  turns[bound].acc

\* A fault: the sweep goes round more than once.
UnboundedSweep == MAX_VALIDATORS_PER_WITHDRAWALS_SWEEP

SweepBound == Min({N, MAX_VALIDATORS_PER_WITHDRAWALS_SWEEP})

\* A fault: every sweep starts at the first validator.
SweepFromFirst ==
    expected_withdrawals_loop(nextIndex, 0, SweepBound)

get_expected_withdrawals ==
    expected_withdrawals_loop(nextIndex, nextValidator, SweepBound)

\* DecreaseBalance stops at zero.
DecreaseBalance(balance, delta) == IF delta > balance THEN 0 ELSE balance - delta

ApplyWithdrawals(bs, withdrawals) ==
    LET after[n \in 0..Len(withdrawals)] ==
            IF n = 0 THEN bs
            ELSE [after[n - 1] EXCEPT
                    ![withdrawals[n].validator_index] =
                        DecreaseBalance(@, withdrawals[n].amount)]
    IN  after[Len(withdrawals)]

\* Where the next sweep starts: past the last validator paid when the payload is
\* full, and a whole sweep further otherwise.  Two faults before it: the pointer
\* only moves when something was paid; it does not wrap round the registry.
MovesWhenPaid(withdrawals) ==
    IF withdrawals = <<>>
    THEN nextValidator
    ELSE (withdrawals[Len(withdrawals)].validator_index + 1) % N

MovesPastEnd(withdrawals) ==
    IF Len(withdrawals) = MAX_WITHDRAWALS_PER_PAYLOAD
    THEN withdrawals[Len(withdrawals)].validator_index + 1
    ELSE (nextValidator + MAX_VALIDATORS_PER_WITHDRAWALS_SWEEP) % N

NextValidator(withdrawals) ==
    IF Len(withdrawals) = MAX_WITHDRAWALS_PER_PAYLOAD
    THEN (withdrawals[Len(withdrawals)].validator_index + 1) % N
    ELSE (nextValidator + MAX_VALIDATORS_PER_WITHDRAWALS_SWEEP) % N

NextIndex(withdrawals) ==
    IF withdrawals = <<>> THEN nextIndex ELSE withdrawals[Len(withdrawals)].index + 1

-----------------------------------------------------------------------------
(* The steps *)

Staking == [has_eth1_credential |-> FALSE, withdrawable |-> FALSE, full |-> TRUE]

Init ==
    /\ validators = [i \in 0..GenesisCount - 1 |-> Staking]
    /\ balances = [i \in 0..GenesisCount - 1 |-> MAX_EFFECTIVE_BALANCE]
    /\ nextIndex = 0
    /\ nextValidator = 0
    /\ issued = GenesisCount * MAX_EFFECTIVE_BALANCE
    /\ burnt = 0
    /\ paid = [i \in 0..GenesisCount - 1 |-> {}]

\* A block whose payload holds the expected withdrawals; any other is rejected.
ProcessWithdrawals ==
    \E expected \in {get_expected_withdrawals} :
        /\ balances' = ApplyWithdrawals(balances, expected)
        /\ nextIndex' = NextIndex(expected)
        /\ nextValidator' = NextValidator(expected)
        /\ paid' = [i \in Vids |->
              paid[i] \cup {<<w.index, w.amount>> :
                  w \in {expected[k] : k \in {n \in DOMAIN expected :
                                                expected[n].validator_index = i}}}]
        /\ UNCHANGED <<validators, issued, burnt>>

\* A reward, or a deposit for a known public key.
IncreaseBalance(i) ==
    /\ issued < Supply
    /\ balances' = [balances EXCEPT ![i] = @ + 1]
    /\ issued' = issued + 1
    /\ UNCHANGED <<validators, nextIndex, nextValidator, burnt, paid>>

Penalize(i) ==
    /\ burnt < MaxBurnt
    /\ balances[i] > 0
    /\ balances' = [balances EXCEPT ![i] = DecreaseBalance(@, 1)]
    /\ burnt' = burnt + 1
    /\ UNCHANGED <<validators, nextIndex, nextValidator, issued, paid>>

\* What the registry holds of its validators, with that of one more.
Appended(f, x) == [i \in 0..N |-> IF i = N THEN x ELSE f[i]]

\* A deposit of the full amount for a new public key, with or without an address.
AddValidatorToRegistry(eth1) ==
    /\ N < MaxValidators
    /\ issued + MAX_EFFECTIVE_BALANCE <= Supply
    /\ validators' = Appended(validators, [Staking EXCEPT !.has_eth1_credential = eth1])
    /\ balances' = Appended(balances, MAX_EFFECTIVE_BALANCE)
    /\ paid' = Appended(paid, {})
    /\ issued' = issued + MAX_EFFECTIVE_BALANCE
    /\ UNCHANGED <<nextIndex, nextValidator, burnt>>

ProcessBlsToExecutionChange(i) ==
    /\ ~validators[i].has_eth1_credential
    /\ validators' = [validators EXCEPT ![i].has_eth1_credential = TRUE]
    /\ UNCHANGED <<balances, nextIndex, nextValidator, issued, burnt, paid>>

\* An epoch begins that is the withdrawable epoch of a validator.
Mature(i) ==
    /\ ~validators[i].withdrawable
    /\ validators' = [validators EXCEPT ![i].withdrawable = TRUE]
    /\ UNCHANGED <<balances, nextIndex, nextValidator, issued, burnt, paid>>

\* An epoch transition moves an effective balance to or from the maximum.
ApplyEffectiveBalance(i) ==
    /\ validators' = [validators EXCEPT ![i].full = ~@]
    /\ UNCHANGED <<balances, nextIndex, nextValidator, issued, burnt, paid>>

Next ==
    \/ ProcessWithdrawals
    \/ \E eth1 \in BOOLEAN : AddValidatorToRegistry(eth1)
    \/ \E i \in Vids :
        \/ IncreaseBalance(i)
        \/ Penalize(i)
        \/ ProcessBlsToExecutionChange(i)
        \/ Mature(i)
        \/ ApplyEffectiveBalance(i)

\* Blocks keep coming, whatever else happens.
Fairness == WF_vars(ProcessWithdrawals)

Spec == Init /\ [][Next]_vars /\ Fairness

-----------------------------------------------------------------------------
(* Properties *)

\* Types: no balance and no index outgrows what was issued, and the pointer is
\* a validator of the registry, which only grows.
TypeOK ==
    /\ DOMAIN validators = 0..N - 1
    /\ balances \in [Vids -> 0..Supply]
    /\ nextIndex \in 0..Supply
    /\ nextValidator \in Vids
    /\ issued \in 0..Supply /\ burnt \in 0..Supply
    /\ DOMAIN paid = Vids

Due(i) ==
    \/ is_fully_withdrawable_validator(validators[i], balances[i])
    \/ is_partially_withdrawable_validator(validators[i], balances[i])

\* What a payload must hold, said without the loop: the first validators that are
\* due, counted round the registry from the pointer, no further than a sweep goes
\* and no more than a payload takes; each of them once.
FirstDue ==
    LET At(k)     == (nextValidator + k) % N
        positions == {k \in 0..SweepBound - 1 : Due(At(k))}
        first     == {k \in positions :
                        Cardinality({j \in positions : j < k})
                            < MAX_WITHDRAWALS_PER_PAYLOAD}
        expected  == get_expected_withdrawals
    IN  /\ Len(expected) = Cardinality(first)
        /\ \A n \in DOMAIN expected : \E k \in first :
             /\ Cardinality({j \in first : j < k}) = n - 1
             /\ expected[n].validator_index = At(k)
             /\ expected[n].index = nextIndex + n - 1

Total(f) == MapThenSumSet(LAMBDA x : f[x], DOMAIN f)

PaidTo(i) == Total([p \in paid[i] |-> p[2]])

\* Money is conserved: what was issued is held, burnt or was paid out.  A payload
\* that paid the same balance twice would create money, because the balance it is
\* taken from stops at zero.
MoneyConserved == issued = burnt + Total([i \in Vids |-> balances[i] + PaidTo(i)])

\* Withdrawal indices are never reused and never skipped.
IndicesContiguous ==
    /\ UNION {{p[1] : p \in paid[i]} : i \in Vids} = 0..nextIndex - 1
    /\ nextIndex = Total([i \in Vids |-> Cardinality(paid[i])])

\* What was paid is accounted for, in money and in indices.
PayoutsAccounted == MoneyConserved /\ IndicesContiguous

\* A withdrawal never takes from the stake of a validator that has not left: it
\* is left with the maximum effective balance.
StakeKept ==
    [][\A i \in Vids :
          paid'[i] # paid[i] =>
              balances'[i] = IF validators[i].withdrawable THEN 0
                             ELSE MAX_EFFECTIVE_BALANCE]_vars

\* Nobody stays due for ever: whoever has left gets everything, and the excess of
\* those who stay is paid, however the pointer moves and whatever the others earn,
\* unless it goes away first.
DueIsPaid == \A i \in 0..MaxValidators - 1 : []<>~(i \in Vids /\ Due(i))
=============================================================================
