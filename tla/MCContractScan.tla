-------------------------- MODULE MCContractScan --------------------------
(* ContractScan on projects of two files, written in one of nine            *)
(* vocabularies at a time: each takes the node kinds of one concern.        *)
EXTENDS ContractScan

Storage(tier, access, marks) ==
  [root |-> "env", methods |-> <<"storage", tier, access>>, marks |-> marks]
GetUnwrap ==
  [root |-> "env", methods |-> <<"storage", "persistent", "get", "unwrap">>,
   marks |-> {"parameter"}]
On(root, method, marks) == [root |-> root, methods |-> <<method>>, marks |-> marks]
WrappedGet ==
  [root |-> "env", methods |-> <<"storage", "instance", "get", "wrapping_add">>, marks |-> {}]

Impl(contract, exported, in_trait, test) ==
  [present |-> TRUE, contract |-> contract, in_contract_impl |-> exported,
   is_trait_impl |-> in_trait, is_test |-> test]
TokenImpl == Impl("Token", TRUE, FALSE, FALSE)

Op(method, on, marks) == [method |-> method, on |-> on, marks |-> marks]

V(words, names, impls, chains, operations, events) ==
  [words |-> words, names |-> names, impls |-> impls, chains |-> chains,
   operations |-> operations, events |-> events]

LoopsV == V({"fn", "for", "while", "chain"}, {"pay"}, {},
            {GetUnwrap, On("client", "transfer", {"token"})}, {}, 5)
GuardsV == V({"fn", "loop", "cond", "guard", "expr", "chain", "attribute"}, {"pay"}, {},
             {WrappedGet}, {Op("+", "value", {"integer", "amount"})}, 4)
KeysV == V({"fn", "block", "let", "pattern", "chain"}, {"pay"}, {},
           {Storage("persistent", "get", {}), Storage("instance", "set", {"collection"})},
           {}, 5)
TiersV == V({"fn", "let", "chain"}, {"pay", "help"}, {},
            {Storage("persistent", "get", {}), Storage("instance", "set", {})}, {}, 4)
TestsV == V({"mod", "impl", "method", "private", "trait", "for", "expr"}, {"pay"},
            {TokenImpl, Impl("Token", TRUE, TRUE, TRUE)}, {}, {Op("index", "value", {})}, 4)
CallsV == V({"fn", "struct", "impl", "method", "private", "call"}, {"pay", "help"},
            {TokenImpl, Impl(NoName, TRUE, FALSE, FALSE)}, {}, {}, 4)
AuthV == V({"fn", "impl", "method", "call", "chain", "attribute"}, {"pay", "help"}, {TokenImpl},
           {Storage("persistent", "set", {})}, {}, 5)
HookV == V({"impl", "method", "fn", "call", "chain"}, {"__check_auth", "help"}, {TokenImpl},
           {On("env", "verify", {}), On("value", "require_auth", {}), Storage("persistent", "extend_ttl", {})}, {}, 4)
RulesV == V({"impl", "method", "for", "chain", "expr"}, {"pay"}, {TokenImpl},
            {On("env", "update_current_contract_wasm", {}), On("env", "deploy", {}),
             Storage("temporary", "set", {"integer"}), GetUnwrap},
            {Op("%", "now", {"integer"}), Op("as", "value", {"lossy"}),
             Op("todo", "value", {}), Op("-", "value", {"integer", "amount"})}, 5)

SomeVocabularies == {LoopsV, GuardsV, KeysV, TiersV, TestsV, CallsV, AuthV, HookV, RulesV}

===========================================================================
