---------------------------- MODULE InvoiceSolver ----------------------------
(* The matching of one payment with a set of invoices: the branch-and-     *)
(* bound search, cut short by its deadline at any entry of a node, the     *)
(* independent verifier of its answers, and the replay that solves again   *)
(* and compares.                                                           *)
(*                                                                         *)
(* Invoices are named by their place in the request, which is also the     *)
(* order of their identifiers.  Identifiers of the solve, durations,       *)
(* signatures and wording are left out.                                    *)
EXTENDS Integers, Sequences, FiniteSets, SequencesExt

CONSTANTS
  Requests,       \* the requests considered
  CandidatesCap,  \* maxCandidatesCap of the policy
  PolicySplit     \* maxInvoicesPerSplit of the policy

\* What the schema of a request lets through.
InvoiceRecord == [amount : Nat \ {0}, status : STRING, tenant : STRING, currency : STRING,
                  repeats : BOOLEAN]
RequestRecord == [payment : Nat \ {0}, tolerance : Nat, maxSplit : Nat \ {0}, partial : BOOLEAN,
                  tenant : STRING, currency : STRING, invoices : Seq(InvoiceRecord)]

ASSUME SolverAssumption ==
  /\ Requests \subseteq RequestRecord
  /\ {CandidatesCap, PolicySplit} \subseteq Nat \ {0}

VARIABLES
  request,    \* the request, fixed
  pc,         \* "solve", "enter", "branch", "replay", "done"
  candidates, \* eligibleInvoices: sorted, cut to the cap
  selected,   \* the places in candidates on the path of the search
  branch,     \* the next place each node of the path tries, root first
  best,       \* bestSol: <<>> or the places of the best selection so far
  answer,     \* the response, none before the first solve ends
  stored,     \* the response a replay is compared with
  replay      \* "none", "same" or "diverged"

solverVars == <<request, pc, candidates, selected, branch, best, answer, stored, replay>>

NoAnswer == [status |-> "none"]

-----------------------------------------------------------------------------
Invoices == DOMAIN request.invoices
AmountOf(i) == request.invoices[i].amount

\* The sum of the amounts of S, added up in the order of the request.
SumOf(S) ==
  LET sum[n \in 0..Len(request.invoices)] ==
        IF n = 0 THEN 0 ELSE sum[n - 1] + (IF n \in S THEN AmountOf(n) ELSE 0)
  IN sum[Len(request.invoices)]

Gap(a, b) == IF a > b THEN a - b ELSE b - a
Lesser(a, b) == IF a < b THEN a ELSE b

\* The invoices behind a path of places in candidates.
Chosen(path) == {candidates[path[k]] : k \in DOMAIN path}

\* The checks before the search, each of which blocks the request: the tenant and the
\* currency of an invoice, and an identifier met before.
IsBlocked == \E i \in Invoices : request.invoices[i].tenant # request.tenant
                                 \/ request.invoices[i].currency # request.currency
                                 \/ request.invoices[i].repeats

Eligible == {i \in Invoices : request.invoices[i].status = "ELIGIBLE"}

\* Ascending by amount, then by identifier.
SortsBefore(a, b) == \/ AmountOf(a) < AmountOf(b)
                     \/ AmountOf(a) = AmountOf(b) /\ a < b

Sorted(S) == CHOOSE s \in [1..Cardinality(S) -> S] :
               \A j, k \in 1..Cardinality(S) : j < k => SortsBefore(s[j], s[k])

Truncated(seq) == SubSeq(seq, 1, Lesser(Len(seq), CandidatesCap))

Dropped == Cardinality(Eligible) > CandidatesCap

Objective(S) == Gap(SumOf(S), request.payment) * 1000 + Cardinality(S)

Response(status, solver, S, total, difference, objective) ==
  [status |-> status, solver |-> solver, selected |-> S, total |-> total,
   difference |-> difference, objective |-> objective]

Refusal(status, solver) == Response(status, solver, {}, 0, request.payment, 0)

Match(status, solver, S) ==
  Response(status, solver, S, SumOf(S), Gap(SumOf(S), request.payment), Objective(S))

-----------------------------------------------------------------------------
\* What follows an answer: the first one is stored and may be replayed; a replay is
\* verified and compared with the stored one.
IsRefusal(a) == a.status \in {"NO_FEASIBLE_MATCH", "SOLVER_TIMEOUT", "BLOCKED"}

\* verify(): every figure of an answer is computed again from the request.
Verified(a) ==
  IF IsRefusal(a) THEN a.selected = {}
  ELSE LET difference == Gap(SumOf(a.selected), request.payment)
           partial == a.status = "PARTIAL_PAYMENT"
       IN /\ a.selected # {} /\ a.selected \subseteq Eligible
          /\ \A i \in a.selected : request.invoices[i].tenant = request.tenant
          /\ a.solver \in {"OPTIMAL", "FEASIBLE"}
          /\ a.total = SumOf(a.selected)
          /\ a.difference = difference
          /\ IF partial
             THEN /\ Cardinality(a.selected) = 1 /\ request.payment < SumOf(a.selected)
                  /\ a.objective = difference
             ELSE /\ Cardinality(a.selected) <= request.maxSplit
                  /\ difference <= request.tolerance
                  /\ a.objective = Objective(a.selected)

Agrees(a, b) == /\ a.status = b.status /\ a.total = b.total
                /\ a.difference = b.difference /\ a.selected = b.selected

Ends(a) ==
  /\ answer' = a
  /\ selected' = <<>> /\ branch' = <<>> /\ best' = <<>>
  /\ IF stored = NoAnswer
     THEN pc' = "replay" /\ stored' = a /\ UNCHANGED replay
     ELSE /\ pc' = "done" /\ UNCHANGED stored
          /\ replay' = IF Verified(a) /\ Agrees(a, stored) THEN "same" ELSE "diverged"

-----------------------------------------------------------------------------
\* solve() up to the search: blocked, matched by one invoice of the very amount, or
\* the root of the search.
Solve ==
  /\ pc = "solve"
  /\ candidates' = Truncated(Sorted(Eligible))
  /\ LET exact == {k \in DOMAIN candidates' : AmountOf(candidates'[k]) = request.payment}
     IN CASE IsBlocked -> Ends(Refusal("BLOCKED", "MODEL_INVALID"))
          [] ~IsBlocked /\ exact # {}
               -> Ends(Match("EXACT_MATCH", "OPTIMAL", {candidates'[Min(exact)]}))
          [] OTHER -> /\ pc' = "enter" /\ selected' = <<>> /\ branch' = <<1>> /\ best' = <<>>
                      /\ UNCHANGED <<answer, stored, replay>>
  /\ UNCHANGED request

\* The deadline has passed when a node is entered: the whole search unwinds, and
\* what it had found is dropped.
TimeOut ==
  /\ pc = "enter"
  /\ Ends(Refusal("SOLVER_TIMEOUT", "TIMEOUT"))
  /\ UNCHANGED <<request, candidates>>

MaxSplit == Lesser(request.maxSplit, PolicySplit)
Ceiling == request.payment + request.tolerance

Improves ==
  /\ selected # <<>> /\ Gap(SumOf(Chosen(selected)), request.payment) <= request.tolerance
  /\ best = <<>> \/ Objective(Chosen(selected)) < Objective(Chosen(best))

\* Mutant: a sum of just the tolerance is too large.
ExceedsPayment(path, k) == SumOf(Chosen(path)) + AmountOf(candidates[k]) >= Ceiling

\* Invoices are sorted, so once one is too large the rest of the branch is.
Exceeds(path, k) == SumOf(Chosen(path)) + AmountOf(candidates[k]) > Ceiling

IsLeaf == Len(selected) >= MaxSplit \/ SumOf(Chosen(selected)) > Ceiling

\* A node: its selection is evaluated, then it branches or returns.
Enter ==
  /\ pc = "enter"
  /\ best' = IF Improves THEN selected ELSE best
  /\ pc' = "branch"
  /\ branch' = IF IsLeaf THEN [branch EXCEPT ![Len(branch)] = Len(candidates) + 1] ELSE branch
  /\ UNCHANGED <<request, candidates, selected, answer, stored, replay>>

\* The loop of the deepest node takes its next invoice.
MayDescend == LET k == branch[Len(branch)]
              IN k <= Len(candidates) /\ ~Exceeds(selected, k)

Descend ==
  /\ pc = "branch" /\ MayDescend
  /\ LET k == branch[Len(branch)]
     IN /\ selected' = Append(selected, k)
        /\ branch' = Append([branch EXCEPT ![Len(branch)] = k + 1], k + 1)
  /\ pc' = "enter"
  /\ UNCHANGED <<request, candidates, best, answer, stored, replay>>

\* The loop is over: back to the node above.
Backtrack ==
  /\ pc = "branch" /\ ~MayDescend /\ selected # <<>>
  /\ selected' = Front(selected) /\ branch' = Front(branch)
  /\ UNCHANGED <<request, pc, candidates, best, answer, stored, replay>>

\* The root has returned: the best selection, else a partial payment of the smallest
\* invoice larger than the payment, else none.
Found(path) ==
  LET S == Chosen(path)
      larger == {k \in DOMAIN candidates : AmountOf(candidates[k]) > request.payment}
      invoice == candidates[Min(larger)]
  IN CASE path # <<>> ->
            Match(IF Gap(SumOf(S), request.payment) # 0 THEN "SPLIT_MATCH_WITH_TOLERANCE"
                  ELSE IF Cardinality(S) > 1 THEN "SPLIT_MATCH" ELSE "EXACT_MATCH",
                  IF Dropped THEN "FEASIBLE" ELSE "OPTIMAL", S)
       [] path = <<>> /\ request.partial /\ larger # {} ->
            Response("PARTIAL_PAYMENT", "FEASIBLE", {invoice}, AmountOf(invoice),
                   AmountOf(invoice) - request.payment, AmountOf(invoice) - request.payment)
       [] OTHER -> Refusal("NO_FEASIBLE_MATCH", "INFEASIBLE")

Finish ==
  /\ pc = "branch" /\ ~MayDescend /\ selected = <<>>
  /\ Ends(Found(best))
  /\ UNCHANGED <<request, candidates>>

\* replayInvoiceMatch: the stored request is solved again.
Replay ==
  /\ pc = "replay"
  /\ pc' = "solve"
  /\ UNCHANGED <<request, candidates, selected, branch, best, answer, stored, replay>>

SolverStart ==
  /\ pc = "solve"
  /\ candidates = <<>> /\ selected = <<>> /\ branch = <<>> /\ best = <<>>
  /\ answer = NoAnswer /\ stored = NoAnswer /\ replay = "none"

SolverInit == request \in Requests /\ SolverStart

SolverNext ==
  \/ Solve \/ TimeOut \/ Enter \/ Descend \/ Backtrack \/ Finish \/ Replay

SolverSpec == SolverInit /\ [][SolverNext]_solverVars

-----------------------------------------------------------------------------
(* Properties *)

\* The path of the search and the places its nodes try grow and shrink together.
SolverTypeOK ==
  /\ pc \in {"solve", "enter", "branch", "replay", "done"}
  /\ Len(branch) = (IF pc \in {"enter", "branch"} THEN Len(selected) + 1 ELSE 0)
  /\ \A i, j \in DOMAIN selected : i < j => selected[i] < selected[j]
  /\ replay \in {"none", "same", "diverged"}

\* The selections a request admits.
Feasible == {S \in SUBSET Eligible : /\ Cardinality(S) \in 1..MaxSplit
                                     /\ Gap(SumOf(S), request.payment) <= request.tolerance}

\* Every answer passes the verifier; OPTIMAL means that no admissible selection of the
\* request has a smaller objective, although the search stops at the first invoice too
\* large; INFEASIBLE over an uncut request means that there is none
\* (cpsat-engine.ts 154-240); and a replay disagrees only when one of the two solves
\* ran into its deadline.
SolverAnswersHold ==
  answer # NoAnswer =>
    /\ Verified(answer)
    /\ answer.solver = "OPTIMAL" => \A S \in Feasible : answer.objective <= Objective(S)
    /\ (answer.solver = "INFEASIBLE" /\ ~Dropped) => Feasible = {}
    /\ replay = "diverged" => "SOLVER_TIMEOUT" \in {answer.status, stored.status}

-----------------------------------------------------------------------------
(* Stated by the code and not kept; README.md says when. *)

\* "100% reproducible": a replay comes to the stored answer.
ReplayReproduces == replay # "diverged"

\* "No feasible subset of candidate invoices": INFEASIBLE means that there is none.
InfeasibleIsProved == answer # NoAnswer /\ answer.solver = "INFEASIBLE" => Feasible = {}
=============================================================================
