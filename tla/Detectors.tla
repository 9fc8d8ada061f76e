----------------------------- MODULE Detectors -----------------------------
(***************************************************************************)
(* What the source detectors report of a contract model                    *)
(* (src/crates/soroban-security-sdk/src/detectors/).  A detector is a      *)
(* function of the finished model m and of what is known of the package:   *)
(* the set of its findings, each with the site or entrypoint it points at. *)
(* m has the fields sites, loops, call_graph, external_calls and           *)
(* contracts, as ModelBuilder leaves them.                                 *)
(***************************************************************************)
EXTENDS MethodChains, FiniteSets

CONSTANTS
  constructor,          \* the name __constructor
  check_auth,           \* the name __check_auth
  LocalKeys,            \* keys written as one lower-case identifier
  LongLivedKeys         \* keys whose variant is named like durable state

(* What is known of the manifest: whether there is one, whether the crate    *)
(* is a contract, and whether its release profile checks for overflow.      *)
Package == [present : BOOLEAN, is_contract_crate : BOOLEAN, overflow_checks : BOOLEAN]

(***************************************************************************)
(* Queries of the model.                                                   *)
(***************************************************************************)
Entrypoints(m) == UNION {c.entrypoints : c \in m.contracts}
EntrypointNames(m) == {e.name : e \in Entrypoints(m)}
Vec(m, vec) == {s \in m.sites : s.vec = vec}
In(m, vec, f) == {s \in Vec(m, vec) : s.function = f}

(* Mutant of Reachable: only the function itself is looked at.              *)
OwnBody(m, f) == {f}

(* What f reaches, f included; CallGraph models the walk that finds it.      *)
Reachable(m, f) ==
  LET from[i \in 0..Cardinality(m.call_graph)] ==
        IF i = 0 THEN {f}
        ELSE from[i - 1] \cup {e[2] : e \in {x \in m.call_graph : x[1] \in from[i - 1]}}
  IN from[Cardinality(m.call_graph)]

HasTransitive(m, f, P(_)) == \E g \in Reachable(m, f) : P(g)

Mutates(s) == s.what.method \in Mutation
EstablishesAuthorization(s) == s.what.method \in RequireAuth \cup {"delegate_auth"}

HasTransitiveAuth(m, f) ==
  LET Checks(g) == \E s \in In(m, "auth_checks", g) : EstablishesAuthorization(s)
  IN HasTransitive(m, f, Checks)

ExtendsAnyTtl(m) == \E s \in Vec(m, "storage_ops") : s.what.method = "extend_ttl"

WritesState(m, f) ==
  LET Writes(g) == \E s \in In(m, "storage_ops", g) : Mutates(s)
  IN HasTransitive(m, f, Writes)

MovesValue(m, f) ==
  LET Moves(g) == \E s \in In(m, "calls", g) :
                     s.what.method = "transfer" /\ "token" \in s.what.marks
  IN HasTransitive(m, f, Moves)

StoresInteger(m, f) ==
  LET Stores(g) == \E s \in In(m, "storage_ops", g) : Mutates(s) /\ "integer" \in s.what.marks
  IN HasTransitive(m, f, Stores)

(***************************************************************************)
(* Findings: the rule, what it points at, the function it names, and the   *)
(* severity the rule gives it.                                             *)
(***************************************************************************)
Finding(rule, s, f, severity) ==
  [rule |-> rule, id |-> s.id, function |-> f, severity |-> severity]

AtSites(rule, severity, S) == {Finding(rule, s, s.function, severity) : s \in S}
AtEntrypoints(rule, severity, S) == {Finding(rule, e, e.name, severity) : e \in S}

(* Authorization.  The constructor and __check_auth are not expected to     *)
(* authorize anybody.                                                       *)
MissingRequireAuth(m) ==
  AtEntrypoints("SSDK001", "High",
    {e \in Entrypoints(m) : /\ e.name \notin {constructor, check_auth}
                            /\ WritesState(m, e.name)
                            /\ ~HasTransitiveAuth(m, e.name)})

(* Any check counts as verification, and so does handing over to code       *)
(* outside the package.                                                     *)
CheckAuthWithoutVerification(m) ==
  LET Checks(g) == In(m, "auth_checks", g) # {}
      Delegates(g) == \E x \in m.external_calls : x[1] = g
  IN AtEntrypoints("SSDK010", "Critical",
       {e \in Entrypoints(m) : /\ e.name = check_auth
                               /\ ~HasTransitive(m, e.name, Checks)
                               /\ ~HasTransitive(m, e.name, Delegates)})

(***************************************************************************)
(* Storage.  A key that is a local name means the same entry only within   *)
(* one function.  One finding per entry, at its first operation.           *)
(***************************************************************************)
Keyed(m) == {s \in Vec(m, "storage_ops") : s.key # NoKey}

(* Of two operations of one chain the outer one is recorded first.          *)
Precedes(s, t) == \/ s.id[1] < t.id[1]
                  \/ s.id[1] = t.id[1] /\ s.id[2] > t.id[2]

(* Mutant of SameEntry: a local name means one entry everywhere.            *)
SameText(s, t) == s.key = t.key

SameEntry(s, t) == s.key = t.key /\ (s.key \in LocalKeys => s.function = t.function)

StorageTierConfusion(m) ==
  AtSites("SSDK002", "High",
    {s \in Keyed(m) :
       /\ \E t \in Keyed(m) : SameEntry(s, t) /\ t.what.tier # s.what.tier
       /\ \A t \in Keyed(m) : SameEntry(s, t) /\ t # s => Precedes(s, t)})

TemporaryStorageWrite(m) ==
  AtSites("SSDK008", "High",
    {s \in Keyed(m) : s.what.tier = "temporary" /\ Mutates(s) /\ s.key \in LongLivedKeys})

(* One extension anywhere silences the rule for the whole model.            *)
MissingTtlExtension(m) ==
  LET Writes(g) == \E s \in In(m, "storage_ops", g) :
                      Mutates(s) /\ s.what.tier = "persistent"
  IN IF ExtendsAnyTtl(m) THEN {}
     ELSE AtEntrypoints("SSDK009", "Medium",
            {e \in Entrypoints(m) : e.name # constructor
                                    /\ HasTransitive(m, e.name, Writes)})

(* Here a key is its text, whatever function it stands in.                  *)
UnboundedEntryGrowth(m) ==
  AtSites("SSDK023", "High",
    {s \in Keyed(m) :
       /\ Mutates(s) /\ "collection" \in s.what.marks
       /\ s.what.tier \in {"persistent", "instance"}
       /\ \/ s.in_loop
          \/ \E t \in Keyed(m) : /\ t.key = s.key /\ t.function = s.function
                                 /\ t.what.method = "get"})

(***************************************************************************)
(* Arithmetic.                                                             *)
(***************************************************************************)
CanOverflow == {"+", "-"}

UncheckedTokenArithmetic(m, package) ==
  IF package.present /\ package.overflow_checks THEN {}
  ELSE AtSites("SSDK003", "High",
         {s \in Vec(m, "arithmetic") :
            /\ s.what.method \in CanOverflow
            /\ ~s.guarded
            /\ "amount" \in s.what.marks
            /\ MovesValue(m, s.function) \/ StoresInteger(m, s.function)})

LossyCast(m) ==
  AtSites("SSDK004", "Medium", {s \in Vec(m, "casts") : "lossy" \in s.what.marks})

WrappingArithmetic(m) ==
  AtSites("SSDK005", "High", {s \in Vec(m, "arithmetic") : s.what.method \in Wrapping})

OverflowChecksDisabled(package) ==
  package.present /\ package.is_contract_crate /\ ~package.overflow_checks

(***************************************************************************)
(* Loops, randomness, upgrades, panics.                                    *)
(***************************************************************************)
(* Mutant of IsRisky: what the loop does is not asked.                      *)
AnyUnbounded(loop) == ~loop.bounded

IsRisky(loop) == ~loop.bounded /\ (loop.storage_ops # {} \/ loop.contract_calls # {})

UnboundedLoopOverStorage(m) == AtSites("SSDK006", "High", {l \in m.loops : IsRisky(l)})

PredictableRandomness(m) == AtSites("SSDK011", "High", Vec(m, "randomness"))

(* Asked of the function that holds the upgrade, whoever calls it.          *)
Unauthorized(m, methods) ==
  {s \in Vec(m, "upgrades") : s.what.method \in methods /\ ~HasTransitiveAuth(m, s.function)}

UnauthorizedUpgrade(m) ==
  AtSites("SSDK012", "Critical", Unauthorized(m, {"update_current_contract_wasm"}))

UnauthorizedDeploy(m) == AtSites("SSDK024", "High", Unauthorized(m, {"deploy"}))

(* Unfinished code wherever it is; otherwise only what the caller of an     *)
(* entrypoint can make fail, unless it is the recommended overflow guard.   *)
PanicOnCallerInput(m) ==
  AtSites("SSDK013", "High", {s \in Vec(m, "panics") : s.what.method = "todo"})
  \cup AtSites("SSDK013", "Medium",
         {s \in Vec(m, "panics") :
            /\ s.what.method \in Unwrap \cup {"index"}
            /\ "parameter" \in s.what.marks
            /\ s.function \in EntrypointNames(m)
            /\ s.what.on \notin Checked})

(***************************************************************************)
(* All of them.                                                            *)
(***************************************************************************)
Findings(m, package) ==
  MissingRequireAuth(m) \cup CheckAuthWithoutVerification(m)
    \cup StorageTierConfusion(m) \cup TemporaryStorageWrite(m)
    \cup MissingTtlExtension(m) \cup UnboundedEntryGrowth(m)
    \cup UncheckedTokenArithmetic(m, package) \cup LossyCast(m)
    \cup WrappingArithmetic(m) \cup UnboundedLoopOverStorage(m)
    \cup PredictableRandomness(m) \cup UnauthorizedUpgrade(m)
    \cup UnauthorizedDeploy(m) \cup PanicOnCallerInput(m)

===========================================================================
