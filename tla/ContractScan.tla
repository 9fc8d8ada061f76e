--------------------------- MODULE ContractScan ---------------------------
(***************************************************************************)
(* The source detectors run on the model the builder made of a project:    *)
(* ModelBuilder composed with Detectors.  A finding is compared with the   *)
(* project itself, as the open nodes showed it, not with what the builder  *)
(* noted down.                                                             *)
(***************************************************************************)
EXTENDS ModelBuilder, Detectors

ASSUME NamesOfHooks == constructor \notin {NoName, check_auth} /\ check_auth # NoName
ASSUME KeysOfLocals ==
  Ident \subseteq LocalKeys /\ LocalKeys \cap KeyValue = {} /\ LongLivedKeys \subseteq KeyValue

Built ==
  [sites |-> sites, loops |-> {loops[i] : i \in DOMAIN loops},
   call_graph |-> model.call_graph, external_calls |-> model.external_calls,
   contracts |-> model.contracts]

(* No function is nested in another one that goes on after it: nothing is   *)
(* recorded outside the function it stands in.                              *)
Intact == \A s \in sites \cup uttered : s.at.cut => s.at.fn = NoName

Uncounted(x) == ~include_tests /\ x.at.test_scope

(* The calls that stand in one function of the project and name another.     *)
TrueCalls ==
  {<<u.at.fn, u.callee>> : u \in {x \in uttered : ~Uncounted(x) /\ ~x.at.cut
                                                  /\ x.callee \in defined_functions}}

(* The functions whose code can run when f is called: what is in every set  *)
(* of names that holds f and whatever its members call.                     *)
Runs(f) ==
  {g \in Name : \A S \in SUBSET Name :
                  f \in S /\ (\A c \in TrueCalls : c[1] \in S => c[2] \in S) => g \in S}

RunsInside(f) == {s \in sites : s.at.fn \in Runs(f)}

(***************************************************************************)
(* Properties.                                                             *)
(***************************************************************************)

(* rules.md of SSDK001: an entrypoint that writes to storage but never      *)
(* calls require_auth, directly or through a helper.  The finding is there  *)
(* exactly when some storage write, and no authorization, stands in a       *)
(* function the entrypoint can run, in whatever file and order these were   *)
(* visited.                                                                 *)
MissingAuthExact ==
  model.built /\ Intact =>
    \A e \in entrypoints : e.contract # NoName =>
      ((\E f \in MissingRequireAuth(Built) : f.id = e.id)
         <=> /\ e.name \notin {constructor, check_auth}
             /\ \E s \in RunsInside(e.name) : s.vec = "storage_ops" /\ Mutates(s)
             /\ ~\E s \in RunsInside(e.name) :
                   s.vec = "auth_checks" /\ EstablishesAuthorization(s))

SameValue(s, t) ==
  s.meant = t.meant /\ (s.meant.text \in Ident => s.at.fn = t.at.fn)

(* Two values of one function that are no key expressions and are bound to  *)
(* one name.                                                                *)
SameName(s, t) ==
  /\ s.meant # t.meant /\ s.meant.text = t.meant.text
  /\ s.meant.text \in Ident /\ s.at.fn = t.at.fn

(* The operations that go to what another one goes to, through another tier.*)
Clashing(Same(_, _)) ==
  {s \in Keyed(Built) :
     \E t \in Keyed(Built) : Same(s, t) /\ s.what.tier # t.what.tier}

(* SSDK002 is reported for every value that is reached as a key through two *)
(* tiers, or for its name: two functions or two blocks that call different  *)
(* key expressions by one name are not mixed up, and one key under two      *)
(* names is. The only other reports are for a name that stands in one       *)
(* function for several values, none of them a key expression: resolve_key  *)
(* leaves their bare name (builder.rs:220-228), so these are mixed up       *)
(* against builder.rs:216-219. Left out are projects with a key whose name  *)
(* is bound behind the builder's back (KeysInScope), or with code that goes *)
(* on after a function nested in it.                                        *)
TierConfusionExact ==
  model.built /\ (\A s \in sites : ~s.meant.hidden /\ ~s.at.cut) =>
    LET reported == {s \in sites : \E f \in StorageTierConfusion(Built) : f.id = s.id}
    IN /\ \A s \in Clashing(SameValue) : \E r \in reported : SameValue(r, s) \/ SameName(r, s)
       /\ \A r \in reported : r.vec = "storage_ops" =>
             r \in Clashing(SameValue) \cup Clashing(SameName)

(* Whatever rule it is of, a finding at a site names the function the site  *)
(* stands in, and without include_tests none is in test code, although the  *)
(* loops of test code are recorded.                                         *)
FindingsPlaced ==
  model.built =>
    \A p \in Package : \A f \in Findings(Built, p) :
      \A s \in Recordings : s.id = f.id =>
        /\ f.function = (IF s.at.cut THEN NoName ELSE s.at.fn)
        /\ ~Uncounted(s)

===========================================================================
