--------------------------- MODULE MethodChains ---------------------------
(***************************************************************************)
(* What the model builder reads off one chain of method calls, such as     *)
(*   env.storage().persistent().get(&KEY).unwrap()                         *)
(* (src/crates/soroban-security-sdk/src/model/builder.rs, 395-626 and      *)
(* 1329-1464).  A chain is what it starts from and its methods, innermost  *)
(* first.  Names the code treats alike are one name here: Verify stands    *)
(* for the verification methods, Upgrade for the deployment methods, and   *)
(* "other" for every name no table knows.  The root "client" is a handle   *)
(* bound to a generated client, or the Client::new call itself.            *)
(***************************************************************************)
EXTENDS Naturals, Sequences

CONSTANT NoKey          \* the key of what has none

Tier == {"instance", "persistent", "temporary"}
Read == {"get", "has", "get_ttl"}
Mutation == {"set", "remove"}
Access == Read \cup Mutation \cup {"extend_ttl"}
RequireAuth == {"require_auth", "require_auth_for_args"}
Verify == {"verify"}
Upgrade == {"update_current_contract_wasm", "deploy", "upload_wasm"}
Wrapping == {"wrapping_add"}
Checked == {"checked_add"}
Unwrap == {"unwrap", "expect"}
Link == {"storage", "crypto", "custom_account", "delegate_auth", "transfer", "other"}

Method == Tier \cup Access \cup RequireAuth \cup Verify \cup Upgrade
            \cup Wrapping \cup Checked \cup Unwrap \cup Link
Root == {"env", "value", "client"}

(* What the model knows of the data: it mentions a parameter of the         *)
(* function, is an integer, one of amount width, a collection, a cast that  *)
(* loses bits, or goes through a client of a token interface.               *)
Mark == {"parameter", "integer", "amount", "collection", "lossy", "token"}

Chain == [root : Root, methods : Seq(Method), marks : SUBSET Mark]

Vector == {"storage_ops", "auth_checks", "arithmetic", "casts", "panics", "calls",
           "upgrades", "randomness"}

NoTier == "none"

(* The chain up to its i-th method, and what that method is called on.      *)
Upto(c, i) == [c EXCEPT !.methods = SubSeq(@, 1, i)]
Receiver(c) == Upto(c, Len(c.methods) - 1)
Outer(c) == c.methods[Len(c.methods)]

(* A tier method counts on storage() or on something that has a tier        *)
(* already; any other method passes on the tier of its receiver.            *)
TierOf(c) ==
  LET tier[i \in 0..Len(c.methods)] ==
        IF i = 0 THEN NoTier
        ELSE IF c.methods[i] \in Tier
             THEN IF i > 1 /\ (c.methods[i - 1] = "storage" \/ tier[i - 1] # NoTier)
                  THEN c.methods[i] ELSE NoTier
        ELSE tier[i - 1]
  IN tier[Len(c.methods)]

ReceiverHas(c, name) == \E i \in 1..(Len(c.methods) - 1) : c.methods[i] = name

Panics(c) == Outer(c) \in Unwrap

TouchesStorage(c) == Outer(c) \in Access /\ TierOf(c) # NoTier

(* The instance tier is extended as a whole; every other access has a key.  *)
HasKey(c) == ~(Outer(c) = "extend_ttl" /\ TierOf(c) = "instance")

ChecksAuth(c) ==
  \/ Outer(c) \in RequireAuth
  \/ Outer(c) = "delegate_auth" /\ ReceiverHas(c, "custom_account")
  \/ ReceiverHas(c, "crypto") \/ Outer(c) \in Verify

CallsClient(c) == c.root = "client" /\ Len(c.methods) = 1

Wraps(c) == Outer(c) \in Wrapping
Upgrades(c) == Outer(c) \in Upgrade

(* The vectors of the model one method call is recorded in.                 *)
Recorded(c) ==
  {v \in Vector :
     \/ v = "panics" /\ Panics(c)
     \/ v = "storage_ops" /\ TouchesStorage(c)
     \/ v = "auth_checks" /\ ChecksAuth(c)
     \/ v = "calls" /\ CallsClient(c)
     \/ v = "arithmetic" /\ Wraps(c)
     \/ v = "upgrades" /\ Upgrades(c)}

(* What the entry of a chain says of the chain.                             *)
What(c) ==
  [method |-> Outer(c), tier |-> TierOf(c), marks |-> c.marks,
   on |-> IF Len(c.methods) = 1 THEN c.root ELSE Outer(Receiver(c))]

(* The methods whose receiver and arguments are visited as guarded.         *)
Guards(c) == Outer(c) \in Wrapping \cup Checked

(***************************************************************************)
(* The other expressions that are recorded: an operator, what it is        *)
(* applied to, and what is known of the operands.  "now" is a read of the  *)
(* ledger's clock; "%" stands for the operators that mix values.           *)
(***************************************************************************)
Operator == {"+", "-", "%", "as", "index", "todo", "panic"}
Operation == [method : Operator, on : Root \cup {"now"}, marks : SUBSET Mark]

(* Comparisons, logical operators and assignments are not recorded; of the   *)
(* rest only those that pick or mix values use the clock as entropy.         *)
BinaryRecords(e) ==
  {v \in {"arithmetic", "randomness"} :
     \/ v = "arithmetic" /\ e.method \in {"+", "%"}
     \/ v = "randomness" /\ e.method = "%" /\ e.on = "now"}

UnaryRecords(e) == {v \in {"arithmetic"} : e.method = "-" /\ "integer" \in e.marks}
CastRecords(e) == {v \in {"casts"} : e.method = "as"}
IndexRecords(e) == {v \in {"panics"} : e.method = "index"}
MacroRecords(e) == {v \in {"panics"} : e.method \in {"todo", "panic"}}

RecordedExpr(e) ==
  BinaryRecords(e) \cup UnaryRecords(e) \cup CastRecords(e) \cup IndexRecords(e)
    \cup MacroRecords(e)

===========================================================================
