--------------------------- MODULE GovernancePolicy ---------------------------
(* governance/policy.py and modes.py: a policy snapshot, how it is tightened  *)
(* again and again, and the mode that is resolved under it.  A namespace      *)
(* budget stands for variant_limit and code_bytes, a process budget for the   *)
(* limits of the process; "arrow" is any of the advanced providers.           *)
EXTENDS Naturals

CONSTANTS
    Amounts,        \* amounts a budget may be asked for; 1..MaxAmount are legal
    MaxAmount,
    DefaultBudgets  \* DEFAULT_RUNTIME_BUDGETS

VARIABLES
    root,     \* the snapshot that was published
    policy    \* the one that is in force after tightening

vars == <<root, policy>>

ModeRank == [off |-> 0, observe |-> 1, auto |-> 2]
Modes == DOMAIN ModeRank
Budgets == {"namespace", "process"}
Providers == {"scalar_python", "arrow"}
Unset == "unset"

PolicyAssumption ==
    /\ MaxAmount \in Nat
    /\ DefaultBudgets \in [Budgets -> 1..MaxAmount]
Partial == UNION {[B -> Amounts] : B \in SUBSET Budgets}

-----------------------------------------------------------------------------
(* _freeze_budgets: what is not given is the default.                       *)
Frozen(asked) == [b \in Budgets |-> IF b \in DOMAIN asked THEN asked[b] ELSE DefaultBudgets[b]]

BudgetsOk(asked) ==
    /\ DOMAIN asked # {} /\ \A b \in DOMAIN asked : asked[b] \in 1..MaxAmount
    /\ Frozen(asked)["namespace"] <= Frozen(asked)["process"]

(* PolicySnapshot, from its fields or from its document.                    *)
SnapshotOk(s) == s.mode \in Modes /\ BudgetsOk(s.budgets) /\ ~s.flags["arrow"]
Snapshot(s) == [s EXCEPT !.budgets = Frozen(@)]

Fields ==
    [mode : Modes, budgets : Partial, flags : [Providers -> BOOLEAN],
     shadow : BOOLEAN, rollout : BOOLEAN]

Init ==
    /\ root \in {Snapshot(s) : s \in {f \in Fields : SnapshotOk(f)}}
    /\ policy = root

(* PolicySnapshot.tighten.                                                  *)
Given(value, otherwise) == IF value = Unset THEN otherwise ELSE value = "yes"

Candidate(r) ==
    [mode |-> IF r.mode = Unset THEN policy.mode ELSE r.mode,
     budgets |-> IF r.keeps THEN policy.budgets ELSE r.budgets,
     flags |-> [p \in Providers |-> policy.flags[p] /\ p \notin r.disable],
     shadow |-> Given(r.shadow, policy.shadow),
     rollout |-> Given(r.rollout, policy.rollout)]

Tightened(old, new) ==
    /\ ModeRank[new.mode] <= ModeRank[old.mode]
    /\ \A b \in Budgets : new.budgets[b] <= old.budgets[b]
    /\ \A p \in Providers : new.flags[p] => old.flags[p]
    /\ new.shadow => old.shadow
    /\ new.rollout => old.rollout

Tighten(r) ==
    /\ r.disable \subseteq Providers
    /\ SnapshotOk(Candidate(r))
    /\ Tightened(policy, Snapshot(Candidate(r)))
    /\ policy' = Snapshot(Candidate(r))
    /\ UNCHANGED root

(* __reduce__: another process rebuilds the snapshot from its document.     *)
Ship ==
    /\ SnapshotOk(policy)
    /\ policy' = Snapshot(policy)
    /\ UNCHANGED root

Keep == [mode |-> Unset, keeps |-> TRUE, budgets |-> <<>>, disable |-> {},
         shadow |-> Unset, rollout |-> Unset]
Requests ==
    {[Keep EXCEPT !.mode = m, !.rollout = y] : m \in Modes, y \in {Unset, "yes", "no"}}
    \cup {[Keep EXCEPT !.keeps = FALSE, !.budgets = b] : b \in Partial}
    \cup {[Keep EXCEPT !.disable = d, !.shadow = y] :
            d \in {{}, {"scalar_python"}, {"arrow"}, {"unknown"}}, y \in {Unset, "yes", "no"}}

Next == Ship \/ \E r \in Requests : Tighten(r)

-----------------------------------------------------------------------------
(* resolve_mode.                                                            *)
Off == [mode |-> "off", capture |-> FALSE, compile |-> FALSE, optimized |-> FALSE]

Decision(mode, observing) ==
    CASE mode = "off" -> Off
      [] mode = "observe" -> [mode |-> mode, capture |-> TRUE, compile |-> observing,
                              optimized |-> FALSE]
      [] mode = "auto" -> [mode |-> mode, capture |-> TRUE, compile |-> TRUE, optimized |-> TRUE]

Resolve(p, x) ==
    LET capped == IF ModeRank[p.mode] < ModeRank[x.mode] THEN p.mode ELSE x.mode
        mode == IF capped = "auto" /\ ~p.rollout THEN "observe" ELSE capped
    IN IF \/ x.disabled \/ ~x.plugin \/ x.mode = "off" \/ ~x.compatible
          \/ ~p.flags["scalar_python"]
       THEN Off
       ELSE Decision(mode, mode = "observe" /\ x.shadow /\ p.shadow)

Situations ==
    [disabled : BOOLEAN, plugin : BOOLEAN, mode : Modes, compatible : BOOLEAN, shadow : BOOLEAN]

-----------------------------------------------------------------------------
TypeOK == SnapshotOk(policy) /\ policy.budgets \in [Budgets -> 1..MaxAmount]

(* However a policy was tightened, no process may do under it what the      *)
(* published one forbids, nor spend more, and a namespace never gets more   *)
(* than its process (policy.py:159-216, modes.py:46-92).                    *)
AuthorityNeverGrows ==
    /\ \A x \in Situations :
        LET now == Resolve(policy, x)
            first == Resolve(root, x)
        IN /\ ModeRank[now.mode] <= ModeRank[first.mode]
           /\ now.capture => first.capture
           /\ now.compile => first.compile
           /\ now.optimized => first.optimized
    /\ \A b \in Budgets : policy.budgets[b] <= root.budgets[b]
    /\ policy.budgets["namespace"] <= policy.budgets["process"]

(* Switching off on the worker wins over every policy and request, and less *)
(* is decided when a condition of lower precedence is withdrawn             *)
(* (modes.py:62-73).                                                        *)
WithdrawalOnlyTightens ==
    \A x \in Situations :
        LET now == Resolve(policy, x)
            Without(y) == Resolve(policy, y)
            Less(d) == (d.capture => now.capture) /\ (d.compile => now.compile)
                         /\ (d.optimized => now.optimized)
        IN /\ Less(Without([x EXCEPT !.disabled = TRUE]))
           /\ Less(Without([x EXCEPT !.plugin = FALSE]))
           /\ Less(Without([x EXCEPT !.compatible = FALSE]))
           /\ Less(Without([x EXCEPT !.shadow = FALSE]))
=============================================================================
