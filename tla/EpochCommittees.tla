-------------------------- MODULE EpochCommittees --------------------------
(***************************************************************************)
(* Epochs and committees of the main-chain contract (epoch.rs,             *)
(* committee.rs): the first call in a new epoch activates the nodes whose  *)
(* delay has passed and selects the committee of a later epoch.            *)
(*                                                                         *)
(* SHA-256 is a parameter: Digest maps the random number and a counter to  *)
(* the number that the code reads from the hash of the two.  The order in  *)
(* which a map holds its keys is left open.                                *)
(***************************************************************************)
EXTENDS NodeRegistry

CONSTANTS
    CommitteeSize,  \* config.committee_size, given to new()
    RandomNumbers,  \* values of last_generated_random_number
    RandomSeed,     \* the one given to new()
    Digest(_, _),   \* Sha256::digest of a random number and a u64
    MaxRerolls      \* rerolls after which a call has used up its gas

\* EPOCH_COMMITTEES_LOOKAHEAD
Lookahead == 2

ASSUME CommitteeAssumption ==
    /\ CommitteeSize \in Nat \ {0}
    /\ RandomNumbers \subseteq Nat
    /\ RandomSeed \in RandomNumbers
    /\ MaxRerolls \in Nat

VARIABLES
    bootstrapping_phase,
    committees,                     \* epoch -> sequence of accounts
    last_processed_epoch,
    last_generated_random_number

epochVars == <<bootstrapping_phase, committees, last_processed_epoch>>

Committee == [1..CommitteeSize -> Accounts]

\* keys_as_vector(): the nodes of a map in some order.
Orders(nodes) == Injection(1..Cardinality(DOMAIN nodes), DOMAIN nodes)

\* The index drawn in round i when there were k rerolls so far, `before` of
\* them in earlier rounds.
Drawn(random, n, i, before, k) ==
    Digest(random, IF k = before THEN i ELSE i + CommitteeSize + k) % n

Rounds == 0..(CommitteeSize - 1)
ChosenBefore(run, i) == {run[j].index : j \in 0..(i - 1)}
RerollsBefore(run, i) == IF i = 0 THEN 0 ELSE run[i - 1].rerolls

\* Mutant: an index that was chosen before is accepted again.
RoundWithoutReroll(run, random, n, i) ==
    /\ run[i].rerolls = RerollsBefore(run, i)
    /\ run[i].index = Drawn(random, n, i, RerollsBefore(run, i), run[i].rerolls)

\* Round i of the draw rerolls for as long as the index was chosen before.
Round(run, random, n, i) ==
    LET before == RerollsBefore(run, i)
        drawn(k) == Drawn(random, n, i, before, k)
    IN  /\ run[i].rerolls >= before
        /\ \A k \in before..(run[i].rerolls - 1) : drawn(k) \in ChosenBefore(run, i)
        /\ run[i].index = drawn(run[i].rerolls)
        /\ run[i].index \notin ChosenBefore(run, i)

\* The draws that end: for each round the index it chooses and the number of
\* rerolls up to there.  There is at most one, and none when there are fewer
\* validators than seats; the call is rolled back then.
Indices(vector) == {k - 1 : k \in DOMAIN vector}
Draws(random, validators) ==
    {run \in [Rounds -> [index: Indices(validators), rerolls: 0..MaxRerolls]] :
        \A i \in Rounds : Round(run, random, Len(validators), i)}

select_committee(random, validators) ==
    {[m \in 1..CommitteeSize |-> validators[run[m - 1].index + 1]] :
        run \in Draws(random, validators)}

\* The account whose turn it is, given the committees known to the contract.
HasCommittee(known) == get_current_epoch \in DOMAIN known
get_current_slot_leader(known) ==
    LET index == Digest(last_generated_random_number, get_current_slot) % CommitteeSize
    IN  known[get_current_epoch][index + 1]

\* Pending nodes whose epoch has come; unwrap() panics when one of them is not
\* an inactive node.
Eligible == {a \in DOMAIN pending_nodes : pending_nodes[a] <= get_current_epoch}

activate_eligible ==
    /\ Eligible \subseteq DOMAIN inactive_nodes
    /\ active_nodes' = [a \in DOMAIN active_nodes \cup Eligible |->
                            IF a \in Eligible THEN inactive_nodes[a] ELSE active_nodes[a]]
    /\ inactive_nodes' = Restrict(inactive_nodes, DOMAIN inactive_nodes \ Eligible)
    /\ pending_nodes' = Restrict(pending_nodes, DOMAIN pending_nodes \ Eligible)

EnoughActive == Cardinality(DOMAIN active_nodes') >= CommitteeSize

\* What select_committee may return after the nodes were activated.
Selected == UNION {select_committee(last_generated_random_number, validators) :
                    validators \in Orders(active_nodes')}

\* Mutant: every epoch refills the lookahead.
PublishWholeWindow ==
    LET filled == get_current_epoch..(get_current_epoch + Lookahead)
    IN  \E c \in Selected :
            committees' = [e \in DOMAIN committees \cup filled |->
                                IF e \in filled THEN c ELSE committees[e]]

\* Mutant: the bootstrapping loop includes its upper end.
PublishOneTooMany ==
    LET filled == IF bootstrapping_phase THEN get_current_epoch..(get_current_epoch + Lookahead + 1)
                  ELSE {get_current_epoch + Lookahead}
    IN  \E c \in Selected :
            committees' = [e \in DOMAIN committees \cup filled |->
                                IF e \in filled THEN c ELSE committees[e]]

\* Leaving the bootstrapping phase fills every epoch up to the lookahead from
\* one random number, hence with one committee; later epochs add one epoch.
publish_committees ==
    LET epoch == get_current_epoch
        filled == IF bootstrapping_phase THEN epoch..(epoch + Lookahead)
                  ELSE {epoch + Lookahead}
    IN  \E c \in Selected :
            committees' = [e \in DOMAIN committees \cup filled |->
                                IF e \in filled THEN c ELSE committees[e]]

\* process_epoch, the part that changes nodes and epochs.  While there are too
\* few nodes to leave the bootstrapping phase the epoch stays unprocessed.
process_epoch ==
    \/ /\ get_current_epoch <= last_processed_epoch
       /\ UNCHANGED <<nodeVars, epochVars>>
    \/ /\ get_current_epoch > last_processed_epoch
       /\ activate_eligible
       /\ bootstrapping_phase /\ ~EnoughActive
       /\ UNCHANGED epochVars
    \/ /\ get_current_epoch > last_processed_epoch
       /\ activate_eligible
       /\ bootstrapping_phase => EnoughActive
       /\ bootstrapping_phase' = FALSE
       /\ publish_committees
       /\ last_processed_epoch' = get_current_epoch

-----------------------------------------------------------------------------
EpochInit ==
    /\ bootstrapping_phase = TRUE
    /\ committees = EmptyMap
    /\ last_processed_epoch = 0
    /\ last_generated_random_number = RandomSeed

EpochTypeOK ==
    /\ bootstrapping_phase \in BOOLEAN
    /\ IsMap(committees, Nat, Committee)
    /\ last_processed_epoch \in Nat
    /\ last_generated_random_number \in RandomNumbers
=============================================================================
