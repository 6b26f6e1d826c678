SPECIFICATION Spec
CONSTANTS
    McpTools = {"web__fetch"}
    UntrustedMcp = {"web__fetch"}
    MinPrincipal <- MCMinPrincipal
    SelfProfile = TRUE
    Evolution = TRUE
    OwnerDms = {"dm"}
    Publics = {"guild"}
    MaxChannels = 1
    Scopes <- MCScopes
    MaxDays = 2
    MaxBoots = 2
    Facts = {f1, f2}
    HitsPerTurn = 1
    MaxChanges = 2
    None = None
INVARIANTS TaintGoverns GuardsHold PageIsTrue
