SPECIFICATION Spec
CONSTANTS
  Name = {"pay", "help", "__check_auth"}
  ContractName = {"Token"}
  NoName = ""
  Ident = {"key"}
  KeyValue = {"DataKey::Balance"}
  NoKey = "no key"
  constructor = "__constructor"
  check_auth = "__check_auth"
  LocalKeys = {"key"}
  LongLivedKeys = {"DataKey::Balance"}
  Vocabularies <- SomeVocabularies
  MaxOpen = 4
  MaxFiles = 2
  Width = 8
INVARIANT SitesAttributed
INVARIANT SiteContextLexical
INVARIANT LoopCounters
INVARIANT KeysInScope
INVARIANT TestCodeSilent
INVARIANT FinishFaithful
INVARIANT MissingAuthExact
INVARIANT TierConfusionExact
INVARIANT FindingsPlaced
CHECK_DEADLOCK FALSE
