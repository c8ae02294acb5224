---------------------------- MODULE AutoApproveGate ----------------------------
(***************************************************************************)
(* The shadow auto-approve gate (services/s2p_auto_approve_gate.py), its   *)
(* routes and the novelty window it consults.  enable, disable and         *)
(* evaluate hold the domain mutation lock; the status route does not, and  *)
(* writes the same category states an evaluation reads back.               *)
(*                                                                         *)
(* Thresholds and confidences are in hundredths.  Other stands for any     *)
(* category name a request may carry that the domain does not have.        *)
(***************************************************************************)
EXTENDS Integers, Sequences, SequencesExt, FiniteSets

CONSTANTS
    Threads, Viewers,   \* threads of requests, and those that ask for the status
    Categories, Other,
    Confidences,     \* confidences an evaluation is asked about
    Thresholds,      \* thresholds an enable request may set
    Minimums,        \* minimum verified decisions it may set
    RollingWindow,   \* rows of a category that make rolling_q (400)
    NoveltyWindow,   \* NoveltyTracker.window_size (50)
    MaxEvents,       \* events kept (200)
    MaxRows, MaxCalls,   \* bounds: verified decisions, calls of the gate
    NoThread

GateAssumption ==
    /\ Viewers \subseteq Threads /\ Confidences \subseteq 0..100 /\ Thresholds \subseteq 0..100 /\ Minimums \subseteq Nat
    /\ {RollingWindow, NoveltyWindow, MaxEvents} \subseteq Nat \ {0}
    /\ MaxRows \in Nat /\ MaxCalls \in Nat
    /\ Other \notin Categories /\ NoThread \notin Threads

VARIABLES
    rows,       \* the verified decisions in the graph: category and is_correct
    config,     \* AutoApproveConfig
    threshold,  \* AutoApproveGate._thresholds
    state,      \* AutoApproveGate._states: what was derived last
    log,        \* the shadow events
    window,     \* the novelty entries: category and is_novel
    mutex, at, mine, calls

gateVars == <<rows, config, threshold, state, log, window, mutex, at, mine, calls>>

Names == Categories \cup {Other}
Idle == [category |-> Other, rows |-> <<>>, todo |-> {}]
Underived == [verified |-> 0, right |-> 0, of |-> 0, threshold |-> 95]

Init ==
    /\ rows = <<>>
    /\ config = [enabled |-> FALSE, initial |-> 95, min |-> 80, minVerified |-> 100]
    /\ threshold = [c \in Categories |-> config.initial]
    /\ state = [c \in Names |-> Underived]
    /\ log = <<>> /\ window = <<>>
    /\ mutex = NoThread
    /\ at = [t \in Threads |-> "idle"] /\ mine = [t \in Threads |-> Idle]
    /\ calls = 0

LastOf(s, n) == SubSeq(s, IF Len(s) > n THEN Len(s) - n + 1 ELSE 1, Len(s))

\* Rows by their positions in what was read: those of a category, those of them
\* that were right.
RowsOf(read, c) == {i \in DOMAIN read : read[i].category = c}
Correct(read, own) == {i \in own : read[i].correct}

\* An operator whose name has an underscore is a plausible bug of the definition
\* that follows; no action uses it.
Rolling_Oldest(own) == {i \in own : Cardinality({j \in own : j <= i}) <= RollingWindow}
\* The last rows of a category.
Rolling(own) == {i \in own : Cardinality({j \in own : j >= i}) <= RollingWindow}

\* _category_state, over the rows its caller read.
Derived(c, read) ==
    LET own == RowsOf(read, c)
        recent == Rolling(own)
    IN [verified |-> Cardinality(own), right |-> Cardinality(Correct(read, recent)),
        of |-> Cardinality(recent),
        threshold |-> IF c \in Categories THEN threshold[c] ELSE config.initial]

\* rolling_q < 0.95, where an empty window counts as 0.
Slipping(s) == s.of = 0 \/ 100 * s.right < 95 * s.of

\* get_status()["per_category"]: novelty_rate > 0.20
NoveltyActive(c) ==
    LET own == SelectSeq(window, LAMBDA e : e.category = c)
    IN 5 * Len(SelectSeq(own, LAMBDA e : e.novel)) > Len(own)

-----------------------------------------------------------------------------
(* The graph and the scores *)

Verify(c, ok) ==
    /\ Len(rows) < MaxRows
    /\ rows' = Append(rows, [category |-> c, correct |-> ok])
    /\ UNCHANGED <<config, threshold, state, log, window, mutex, at, mine, calls>>

\* NoveltyTracker.record, at the end of a score and outside its locks.
Observe(c, novel) ==
    /\ window' = LastOf(Append(window, [category |-> c, novel |-> novel]), NoveltyWindow)
    /\ UNCHANGED <<rows, config, threshold, state, log, mutex, at, mine, calls>>

\* _verified_decisions: a graph that is not available reads as no rows.
ReadRows == {rows, <<>>}

\* A call of the gate under the mutation lock.
Serialized == mutex = NoThread /\ calls < MaxCalls /\ calls' = calls + 1

-----------------------------------------------------------------------------
(* POST /enable and /disable *)

ConfigOK(f) == f.min <= f.initial

Configure(f) ==
    /\ config' = f
    /\ threshold' = [c \in Categories |-> f.initial]
    /\ state' = [c \in Names |-> IF c \in Categories
                                   THEN [state[c] EXCEPT !.threshold = f.initial] ELSE state[c]]

\* Every field of the request is optional; an invalid combination with the
\* fields kept is refused (422) before anything is assigned.
Enable ==
    /\ Serialized
    /\ \E i \in Thresholds \cup {config.initial}, m \in Thresholds \cup {config.min},
          n \in Minimums \cup {config.minVerified} :
          LET f == [enabled |-> TRUE, initial |-> i, min |-> m, minVerified |-> n]
          IN ConfigOK(f) /\ Configure(f)
    /\ UNCHANGED <<rows, log, window, mutex, at, mine>>

Disable ==
    /\ Serialized
    /\ config' = [config EXCEPT !.enabled = FALSE]
    /\ UNCHANGED <<rows, threshold, state, log, window, mutex, at, mine>>

-----------------------------------------------------------------------------
(* POST /evaluate *)

EvaluateBegin(t, c) ==
    /\ at[t] = "idle" /\ Serialized
    /\ mutex' = t
    /\ \E read \in ReadRows :
          mine' = [mine EXCEPT ![t] = [Idle EXCEPT !.category = c, !.rows = read]]
    /\ at' = [at EXCEPT ![t] = "derive"]
    /\ UNCHANGED <<rows, config, threshold, state, log, window>>

EvaluateDerive(t) ==
    /\ at[t] = "derive"
    /\ state' = [state EXCEPT ![mine[t].category] = Derived(mine[t].category, mine[t].rows)]
    /\ at' = [at EXCEPT ![t] = "gate"]
    /\ UNCHANGED <<rows, config, threshold, log, window, mutex, mine, calls>>

Gate_ForgetsVolume(c, s, green, confidence, action, spot) ==
    CASE c \notin Categories \/ ~config.enabled \/ ~green -> "blocked"
      [] OTHER -> IF NoveltyActive(c) \/ confidence < s.threshold \/ ~action \/ spot
                    THEN "blocked" ELSE "would_auto_approve"
\* The checks in their order; the first that fails blocks.
Gate(c, s, green, confidence, action, spot) ==
    IF c \notin Categories THEN "unknown_category"
    ELSE IF ~config.enabled THEN "disabled"
    ELSE IF ~green THEN "conservation_not_green"
    ELSE IF NoveltyActive(c) THEN "novelty_spike"
    ELSE IF s.verified < config.minVerified THEN "insufficient_category_verified_count"
    ELSE IF confidence < s.threshold THEN "below_threshold"
    ELSE IF ~action THEN "wrong_action"
    ELSE IF spot THEN "spot_check_required" ELSE "would_auto_approve"

RecordEvent(e) == log' = LastOf(Append(log, e), MaxEvents)

\* The verdict comes from the category state as it is now, which a status request
\* may have derived anew since this evaluation did.
EvaluateGate(t) ==
    /\ at[t] = "gate"
    /\ \E confidence \in Confidences, green \in BOOLEAN, action \in BOOLEAN, spot \in BOOLEAN :
          LET c == mine[t].category
              s == state[c]
          IN RecordEvent([category |-> c, confidence |-> confidence,
                          gate |-> Gate(c, s, green, confidence, action, spot)])
    /\ at' = [at EXCEPT ![t] = "idle"] /\ mine' = [mine EXCEPT ![t] = Idle]
    /\ mutex' = NoThread
    /\ UNCHANGED <<rows, config, threshold, state, window, calls>>

-----------------------------------------------------------------------------
(* GET /status: one read, then each category's state in turn *)

StatusBegin(t) ==
    /\ at[t] = "idle"
    /\ \E read \in ReadRows :
          mine' = [mine EXCEPT ![t] = [Idle EXCEPT !.rows = read, !.todo = Categories]]
    /\ at' = [at EXCEPT ![t] = "status"]
    /\ UNCHANGED <<rows, config, threshold, state, log, window, mutex, calls>>

StatusDerive(t) ==
    /\ at[t] = "status"
    /\ \E c \in mine[t].todo :
          /\ state' = [state EXCEPT ![c] = Derived(c, mine[t].rows)]
          /\ LET rest == mine[t].todo \ {c}
             IN IF rest = {}
                  THEN at' = [at EXCEPT ![t] = "idle"] /\ mine' = [mine EXCEPT ![t] = Idle]
                  ELSE mine' = [mine EXCEPT ![t].todo = rest] /\ UNCHANGED at
    /\ UNCHANGED <<rows, config, threshold, log, window, mutex, calls>>

-----------------------------------------------------------------------------
(* maybe_expand_threshold_from_verified_outcomes_only, called with the rows of *)
(* the graph; no route calls it, and nothing remembers the rows it has used.   *)
ExpandThreshold(c) ==
    LET s == Derived(c, rows)
        new == IF Slipping(s) THEN IF s.threshold + 5 > 100 THEN 100 ELSE s.threshold + 5
          ELSE IF s.threshold - 1 < config.min THEN config.min ELSE s.threshold - 1
        moves == s.verified >= config.minVerified /\ (Slipping(s) \/ new < s.threshold)
    IN /\ Serialized
       /\ threshold' = IF moves THEN [threshold EXCEPT ![c] = new] ELSE threshold
       /\ state' = [state EXCEPT ![c] = IF moves THEN [s EXCEPT !.threshold = new] ELSE s]
       /\ UNCHANGED <<rows, config, log, window, mutex, at, mine>>

Next ==
    \/ \E c \in Categories : ExpandThreshold(c)
    \/ \E c \in Categories, b \in BOOLEAN : Verify(c, b) \/ Observe(c, b)
    \/ Enable \/ Disable
    \/ \E t \in Threads \ Viewers :
          \/ \E c \in Names : EvaluateBegin(t, c)
          \/ EvaluateDerive(t) \/ EvaluateGate(t)
    \/ \E t \in Viewers : StatusBegin(t) \/ StatusDerive(t)

Spec == Init /\ [][Next]_gateVars

-----------------------------------------------------------------------------
(* Properties *)

\* Type invariant; the log stays within its limit.
TypeOK ==
    /\ Len(rows) <= MaxRows /\ Len(window) <= NoveltyWindow /\ Len(log) <= MaxEvents
    /\ config.min \in Nat /\ config.initial \in 0..100 /\ config.enabled \in BOOLEAN
    /\ threshold \in [Categories -> 0..100]
    /\ \A c \in Names : state[c].right <= state[c].of /\ state[c].of <= state[c].verified
    /\ mutex \in Threads \cup {NoThread}
    /\ at \in [Threads -> {"idle", "derive", "gate", "status"}]

\* An approval is recorded only of a category of the domain, while the gate is
\* enabled, when the graph really holds enough verified decisions of that
\* category and its novelty is low, although a status request may have replaced
\* the counts between the evaluation's read and its verdict.
ApprovalsAreEarned ==
    [][LET e == Last(log')
       IN log' # log /\ e.gate = "would_auto_approve" =>
            /\ config.enabled /\ e.category \in Categories
            /\ Cardinality(RowsOf(rows, e.category)) >= config.minVerified
            /\ e.confidence >= threshold[e.category] /\ ~NoveltyActive(e.category)]_gateVars

\* Whatever sequence of enables, disables and adjustments: a threshold is never
\* below the configured minimum, and the category states show the threshold used.
ThresholdsWithinConfig ==
    \A c \in Categories :
       /\ config.min <= threshold[c] /\ threshold[c] <= 100
       /\ state[c].threshold = threshold[c]

\* A threshold is tightened only by a category with a wrong verified decision
\* among its recent ones, or by an enable, which resets them all (a configuration
\* that asks for no verified decisions tightens on none).
TighteningIsEvidenced ==
    [][\A c \in Categories :
         /\ threshold'[c] > threshold[c]
         /\ config.minVerified > 0
         /\ \E d \in Categories : threshold'[d] # config'.initial
         => \E i \in RowsOf(rows, c) :
               /\ ~rows[i].correct
               /\ Cardinality({j \in RowsOf(rows, c) : j >= i}) <= RollingWindow]_gateVars

\* The thresholds of the gate: within its configuration, tightened on evidence.
ThresholdsAreSound == []ThresholdsWithinConfig /\ TighteningIsEvidenced
================================================================================
