---------------------------- MODULE MCLifecycle ----------------------------
(* Instances of Lifecycle for TLC: a usual invocation and what can be odd  *)
(* about one, a few things at a time.                                      *)
EXTENDS Lifecycle

CONSTANTS vm, jobs, q1, q2   \* model values: modules and requests

MCModules == {vm, jobs}
MCRequests == {q1, q2}
MCMalformed == {"a-b"}
MCNumbers == {"refresh-interval", "page-size"}
MCDefaults == [n \in MCNumbers |-> IF n = "page-size" THEN 1000 ELSE 300]

Nothing == [flag |-> "none", env |-> "none"]
Unset == [given |-> FALSE, parses |-> FALSE, value |-> 0]
Pair(k, v) == [key |-> k, value |-> v, assigns |-> TRUE]
NoPair == [key |-> "site", value |-> "", assigns |-> FALSE]

Usual ==
  [ parses |-> TRUE, version |-> FALSE,
    url |-> [flag |-> "none", env |-> "good"], mode |-> Nothing, ca |-> Nothing,
    token |-> TRUE, credentials |-> FALSE,
    numbers |-> [n \in MCNumbers |-> [flag |-> 0, env |-> Unset]],
    labels |-> [flag |-> << >>, env |-> << >>],
    disabled |-> [flag |-> {}, env |-> {}] ]

Sources(S) == [flag : S, env : S]

WithTexts ==
  { [Usual EXCEPT !.parses = p, !.version = v, !.token = t, !.credentials = c] :
      p, v, t, c \in BOOLEAN }
  \cup { [Usual EXCEPT !.url = u] : u \in Sources(Given) }
  \cup { [Usual EXCEPT !.mode = u, !.ca = c] : u, c \in Sources(Given) }

EnvNumbers ==
  { Unset } \cup [given : {TRUE}, parses : {FALSE}, value : {0}]
            \cup [given : {TRUE}, parses : {TRUE}, value : {-1, 0, 7}]

WithNumbers ==
  { [Usual EXCEPT !.numbers[n] = s] : n \in MCNumbers, s \in [flag : {-1, 0, 5}, env : EnvNumbers] }

PairLists(S) == { << >> } \cup { <<p>> : p \in S } \cup { <<p, q>> : p, q \in S }

WithLabels ==
  { [Usual EXCEPT !.labels.flag = f, !.labels.env = e] :
      f, e \in PairLists({ Pair("site", "x"), Pair("site", "y"), Pair("tenant", "x") }) }
  \cup { [Usual EXCEPT !.labels.flag = <<p>>] :
           p \in { NoPair, Pair("", "x") }
                  \cup { Pair(k, "x") : k \in {"a-b", "__name__", "vm", "collector"} } }

WithModules ==
  { [Usual EXCEPT !.disabled = d] : d \in Sources(SUBSET MCModules) }

MCInvocations == WithTexts \cup WithNumbers \cup WithLabels \cup WithModules

(* Label names of every kind, one at a time. *)
LabelInvocations ==
  { [Usual EXCEPT !.labels.env = <<Pair(k, "x")>>] :
      k \in ReservedNames \cup DataLabels \cup StatusLabels \cup {"site", "a-b", "__name__"} }

=============================================================================
