------------------------------- MODULE Scenario -----------------------------
(***************************************************************************)
(* The test scenarios of the visualizer (bcc-visualizer/src/scenarios.rs,  *)
(* started by server.rs) and the client's send command (cli.rs), run one   *)
(* after another against the same nodes.  All of them spend the coins of   *)
(* one funder, some after splitting the largest with split_utxo, and what  *)
(* a run that failed has left in the pools may be included during the next *)
(* one.                                                                    *)
(*                                                                         *)
(* A scenario is a script: the steps it takes and the payments it makes.   *)
(* Amounts are scaled down and repeated payments cut to two; which script  *)
(* shares its recipients with which is kept.                               *)
(***************************************************************************)
EXTENDS Split

CONSTANTS
    Targets,   \* target_count when split_utxo is called by itself
    MaxRuns    \* bound on the runs, for each value of the first coin

ASSUME ScenarioAssumption == Targets \subseteq Nat /\ MaxRuns \in [Amounts -> Nat]

VARIABLES
    script, step, runs,
    txs,                      \* the transfers to submit
    answered, accepted,       \* which have been answered, and with success
    initial_total,            \* balance_conservation: the funder's first balance
    funder_bal, ni,           \* ... the balance read now, and the node it is read at
    violations,               \* ... the nodes whose total was wrong
    hung,                     \* whether a request of this run is never answered
    fresh, settled            \* at the start of the run: its recipients were never
                              \* paid; nothing was on its way

run  == <<script, runs, fresh, settled>>
sums == <<initial_total, funder_bal, ni, violations>>
vars == <<args, locals, network, run, step, txs, answered, accepted, sums, hung>>

Ended == {"pass", "fail", "alarm"}

-----------------------------------------------------------------------------
(* The scripts.                                                            *)

NoSplit == -1
Pay(to, amount) == [to |-> to, amount |-> amount]

\* The fields: the number of coins to split the largest into (if any), the
\* payments, and whether
\*   each    every node gets a copy of every transfer
\*   spread  the transfers go to the nodes in turn, rather than all to node 1
\*   queued  they are posted one after the other, rather than at once
\*   skips   a payment without coins is left out, rather than the end
\*   strict  a refusal is the end
\*   waits   the balances are awaited, after two blocks if blocks,
\*           of the accepted transfers only if lenient
\*   sums    the conservation of value is checked
\*   bad     malformed transfers are sent, and an acceptance is the end
Plain == [split |-> NoSplit, pays |-> <<>>, each |-> FALSE, spread |-> FALSE, queued |-> FALSE,
          skips |-> FALSE, strict |-> FALSE, waits |-> TRUE, blocks |-> FALSE,
          lenient |-> FALSE, sums |-> FALSE, bad |-> FALSE]

single_transfer ==
    [Plain EXCEPT !.pays = <<Pay(1, 3)>>, !.strict = TRUE]

concurrent_sends ==
    [Plain EXCEPT !.split = 2, !.pays = <<Pay(2, 1), Pay(3, 2)>>, !.spread = TRUE]

double_spend ==
    [Plain EXCEPT !.pays = <<Pay(4, 1)>>, !.each = TRUE]

\* Its recipients, tags 0 to 29, include those of concurrent_sends, 16 to 20.
mempool_flood ==
    [Plain EXCEPT !.pays = <<Pay(3, 1), Pay(5, 1)>>, !.queued = TRUE, !.skips = TRUE,
                  !.blocks = TRUE, !.lenient = TRUE]

balance_conservation ==
    [Plain EXCEPT !.split = 2, !.pays = <<Pay(6, 1), Pay(7, 2)>>, !.spread = TRUE,
                  !.queued = TRUE, !.strict = TRUE, !.sums = TRUE]

invalid_tx_rejection ==
    [Plain EXCEPT !.each = TRUE, !.queued = TRUE, !.waits = FALSE, !.bad = TRUE]

\* The send command: submit and report.
cmd_send ==
    [Plain EXCEPT !.pays = <<Pay(8, 4)>>, !.strict = TRUE, !.waits = FALSE]

\* A call of split_utxo by itself.
SplitOnly(target) == [Plain EXCEPT !.split = target, !.waits = FALSE]

Scripts == {single_transfer, concurrent_sends, double_spend, mempool_flood,
            balance_conservation, invalid_tx_rejection, cmd_send}
           \cup {SplitOnly(t) : t \in Targets}

-----------------------------------------------------------------------------
Init ==
    /\ NetworkInit /\ NoCall
    /\ script = Plain /\ step = "pass" /\ runs = 0 /\ txs = <<>>
    /\ answered = {} /\ accepted = {}
    /\ initial_total = 0 /\ funder_bal = 0 /\ ni = 1 /\ violations = {}
    /\ fresh = TRUE /\ settled = TRUE /\ hung = FALSE

\* A request to start a scenario.
Start(s) ==
    LET sent == pending \cup Range(log)
    IN  /\ step \in Ended /\ runs < MaxRuns[log[1].amount]
        /\ runs' = runs + 1 /\ script' = s
        /\ step' = IF s.sums THEN "snapshot" ELSE "fetch"
        /\ fresh' = \A i \in DOMAIN s.pays : \A tx \in sent : tx.to # s.pays[i].to
        /\ settled' = (pending = {} /\ \A n \in Nodes : at[n] = Len(log))
        /\ txs' = <<>> /\ answered' = {} /\ accepted' = {}
        /\ initial_total' = 0 /\ funder_bal' = 0 /\ ni' = 1 /\ violations' = {}
        /\ UNCHANGED <<args, locals, network>>

\* fail_result: a request to a node failed, or showed an empty wallet.
RequestFails ==
    /\ step \in {"snapshot", "fetch", "conserve", "recipients"}
    /\ step' = "fail"
    /\ UNCHANGED <<args, locals, network, run, txs, answered, accepted, sums>>

\* The funder's balance, on which all nodes must agree.
Snapshot ==
    /\ step = "snapshot"
    /\ initial_total' = Balance(1, Funder)
    /\ step' = IF \A n \in Nodes : Balance(n, Funder) = initial_total' THEN "fetch" ELSE "fail"
    /\ UNCHANGED <<args, locals, network, run, txs, answered, accepted, funder_bal, ni, violations>>

-----------------------------------------------------------------------------
(* Building the transfers.                                                 *)

\* select_coins: the smallest coins, as many as reach the target.  Coins of one
\* amount come in any order.
SelectCoins(utxos, target) ==
    {s \in SUBSET utxos :
        /\ Sum(s) >= target
        /\ \A c \in s, d \in utxos \ s : c.amount <= d.amount
        /\ \E last \in s : Sum(s \ {last}) < target}

\* A selection for each payment, from the coins the earlier ones left; empty
\* where they do not suffice.
Selections(utxos, pays) ==
    {sel \in [DOMAIN pays -> SUBSET utxos] :
        \A i \in DOMAIN pays :
            LET left == utxos \ UNION {sel[j] : j \in 1..(i - 1)}
                good == SelectCoins(left, pays[i].amount)
            IN  IF good = {} THEN sel[i] = {} ELSE sel[i] \in good}

\* The transfers of payments from the coins found for them.
Transfers(pays, coins) ==
    LET all == [i \in DOMAIN pays |-> BuildTransfer(coins[i], pays[i].to, pays[i].amount)]
    IN  Sift(all, {tx \in Range(all) : tx.inputs # {}})

\* A copy of each for every node, in turn.
Copies(seq) ==
    [i \in 1..(NodeCount * Len(seq)) |-> seq[((i - 1) \div NodeCount) + 1]]

Submitting(seq) == IF script.each THEN Copies(seq) ELSE seq

\* The malformed transfers around a coin: unsigned, worth more than the coin,
\* and spending a coin that does not exist.
Malformed(coin) ==
    <<[BuildTransfer({coin}, 9, coin.amount \div 2) EXCEPT !.signed = FALSE, !.change = 0],
      BuildTransfer({coin}, 9, coin.amount + 1),
      BuildTransfer({Coin(log[1], 2, 1)}, 9, 1)>>

\* Read the wallet at node 1 and build the transfers, or have it split first.
Fetch ==
    LET utxos == Utxos(1, Funder)
    IN  /\ step = "fetch"
        /\ \/ /\ script.split = NoSplit /\ ~script.bad
              /\ \E sel \in Selections(utxos, script.pays) :
                    /\ txs' = Submitting(Transfers(script.pays, sel))
                    /\ step' = IF script.skips \/ \A i \in DOMAIN sel : sel[i] # {}
                               THEN "post" ELSE "fail"
              /\ UNCHANGED <<args, locals>>
           \/ /\ script.bad
              /\ \E coin \in utxos : txs' = Submitting(Malformed(coin))
              /\ step' = "post"
              /\ UNCHANGED <<args, locals>>
           \/ /\ script.split # NoSplit
              /\ \E coin \in utxos :
                    /\ \A u \in utxos : u.amount <= coin.amount
                    /\ Call(coin, script.split)
              /\ step' = "split"
              /\ UNCHANGED txs
        /\ UNCHANGED <<network, run, answered, accepted, sums>>

SplitStep == step = "split" /\ Client /\ UNCHANGED <<run, step, txs, answered, accepted, sums>>

\* split_utxo is back: one coin per payment, the smaller ones first, whether or
\* not they cover it.  Coins of one amount come in any order.
AfterSplit ==
    /\ step = "split" /\ pc \in {"done", "failed"}
    /\ \/ /\ pc = "failed" \/ Len(current) < Len(script.pays)
          /\ step' = "fail" /\ UNCHANGED txs
       \/ /\ pc = "done" /\ Len(current) >= Len(script.pays)
          /\ step' = "post"
          /\ \E order \in Bijection(DOMAIN current, DOMAIN current) :
                /\ \A i, j \in DOMAIN current :
                      i < j => current[order[i]].amount <= current[order[j]].amount
                /\ txs' = Transfers(script.pays,
                                    [i \in DOMAIN script.pays |-> {current[order[i]]}])
    /\ UNCHANGED <<network, run, answered, accepted, sums>>
    /\ Return

-----------------------------------------------------------------------------
(* Submitting and checking.                                                *)

NodeOf(i) == IF script.spread \/ script.each THEN ((i - 1) % NodeCount) + 1 ELSE 1

PostPayment(i) ==
    /\ step = "post" /\ i \in DOMAIN txs \ answered
    /\ script.queued => 1..(i - 1) \subseteq answered
    /\ answered' = answered \cup {i}
    /\ \E ok \in BOOLEAN :
          /\ Submit(NodeOf(i), txs[i], ok)
          /\ accepted' = IF ok THEN accepted \cup {i} ELSE accepted
          /\ step' = IF (script.strict /\ ~ok) \/ (script.bad /\ ok) THEN "fail" ELSE step
    /\ UNCHANGED <<args, locals, log, at, run, txs, sums>>

AllPosted ==
    /\ step = "post" /\ answered = DOMAIN txs
    /\ step' = IF ~script.waits THEN "pass" ELSE IF script.blocks THEN "blocks" ELSE "confirm"
    /\ UNCHANGED <<args, locals, network, run, txs, answered, accepted, sums>>

\* Two more blocks at node 1, with whatever in them, or too late.
WaitBlocks ==
    /\ step = "blocks"
    /\ step' \in {"confirm", "fail"}
    /\ UNCHANGED <<args, locals, network, run, txs, answered, accepted, sums>>

\* The payments a poll looks for.
Checked == IF script.lenient THEN accepted ELSE DOMAIN txs

\* Mutant: node 1 alone is asked.
ConfirmedAtOne == \A i \in Checked : Balance(1, txs[i].to) = txs[i].amount

\* Every node shows every recipient with the amount of its payment.
Confirmed == \A i \in Checked : \A n \in Nodes : Balance(n, txs[i].to) = txs[i].amount

Confirm ==
    /\ step = "confirm" /\ Confirmed
    /\ step' = IF script.sums THEN "conserve" ELSE "pass"
    /\ UNCHANGED <<args, locals, network, run, txs, answered, accepted, sums>>

\* Mutant: poll for ever.
ExpireNever == FALSE /\ UNCHANGED <<args, locals, network, run, step, txs, answered, accepted, sums>>

\* wait_until gives up; a request that fails counts as a balance of 0, so the
\* payments may be there.
Expire ==
    /\ step = "confirm"
    /\ step' = "fail"
    /\ UNCHANGED <<args, locals, network, run, txs, answered, accepted, sums>>

\* Conservation, node by node: first the funder's balance ...
ReadFunder ==
    /\ step = "conserve" /\ ni <= NodeCount
    /\ funder_bal' = Balance(ni, Funder)
    /\ step' = "recipients"
    /\ UNCHANGED <<args, locals, network, run, txs, answered, accepted, initial_total, ni, violations>>

\* ... and then those of the recipients, to compare with the first balance.
ReadRecipients ==
    LET total == funder_bal + FoldSet(LAMBDA i, sum : sum + Balance(ni, script.pays[i].to),
                                      0, DOMAIN script.pays)
    IN  /\ step = "recipients"
        /\ violations' = IF total = initial_total THEN violations ELSE violations \cup {ni}
        /\ ni' = ni + 1
        /\ step' = "conserve"
        /\ UNCHANGED <<args, locals, network, run, txs, answered, accepted,
                       initial_total, funder_bal>>

Conserved ==
    /\ step = "conserve" /\ ni > NodeCount
    /\ step' = IF violations = {} THEN "pass" ELSE "alarm"
    /\ UNCHANGED <<args, locals, network, run, txs, answered, accepted, sums>>

-----------------------------------------------------------------------------
\* The steps of a run that has started.
ScriptStep ==
    \/ RequestFails \/ Snapshot \/ Fetch \/ SplitStep \/ AfterSplit
    \/ (\E i \in DOMAIN txs : PostPayment(i))
    \/ AllPosted \/ WaitBlocks \/ Confirm \/ Expire
    \/ ReadFunder \/ ReadRecipients \/ Conserved

\* Where a run awaits an answer.
Awaiting ==
    \/ step \in {"snapshot", "fetch", "blocks", "confirm", "recipients"}
    \/ step = "conserve" /\ ni <= NodeCount
    \/ step = "post" /\ txs # <<>>
    \/ step = "split" /\ pc \in {"post", "wait"}

\* A node takes a request and never answers it.  The client sets no timeout for
\* a request, and the deadlines are looked at only between two of them.
Hang ==
    /\ Awaiting /\ hung' = TRUE
    /\ UNCHANGED <<args, locals, network, run, step, txs, answered, accepted, sums>>

RunStep == ~hung /\ ScriptStep /\ UNCHANGED hung

NetworkStep == Network /\ UNCHANGED <<run, step, txs, answered, accepted, sums, hung>>

Next ==
    \/ (\E s \in Scripts : Start(s)) /\ UNCHANGED hung
    \/ RunStep \/ Hang \/ NetworkStep

\* The program runs and its timers fire.  Of the nodes nothing is assumed, not
\* even that they answer.
Spec == Init /\ [][Next]_vars /\ WF_vars(RunStep)

-----------------------------------------------------------------------------
\* A scenario that awaits its payments and reports success, with recipients
\* never paid before, has every payment it looked for on every node: the check
\* of balances stands for the transfers themselves, also when earlier runs left
\* transfers behind that arrive meanwhile (wait_until and its predicates).
PassMeansConfirmed ==
    step = "pass" /\ script.waits /\ fresh =>
        \A i \in Checked : \A n \in Nodes : Coin(txs[i], 0, txs[i].amount) \in Unspent(at[n])

\* balance_conservation does not report a violation that is none: with nothing
\* under way and its recipients unpaid when it starts, the funder's and the
\* recipients' balances add up on every node, although the balances of a node
\* are read one after the other and nodes lag (scenario_balance_conservation).
NoFalseAlarm == step = "alarm" => ~(fresh /\ settled)

\* A run that has started ends, or one of its requests is never answered: no
\* loss, refusal, eviction or delay of a transfer keeps it going (wait_until's
\* deadline, CONFIRM_TIMEOUT_SECS).
EveryRunEnds == (step \notin Ended) ~> (step \in Ended \/ hung)
=============================================================================
