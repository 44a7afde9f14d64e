\* Tables of up to three routes, queries of up to four parameters, Accept
\* lists of up to two members, Cache-Control of up to two tokens, ages of up
\* to three ticks, two workers of the fast path.
CONSTANTS
  RoutePlans <- SetRoutePlans
  RoutesMax = 3
  Regexes <- RegexPaths
  Params <- SentParams
  StackPairs = 2
  QueryMax = 4
  QueryPolicies <- SetQueryPolicies
  Items <- SentItems
  ItemsMax = 2
  Targets <- SentTargets
  RoutePaths <- PathRules
  HeaderPolicies <- SetHeaderPolicies
  Selectors <- SentSelectors
  Asking <- SentFields
  VariantPlans <- SetVariantPlans
  Responses <- SentResponses
  Confirmed <- Sent304
  Policies <- SetPolicies
  Requests <- SentDirectives
  Horizon = 3
  Workers = {"w1", "w2"}
  Buffers = {"b1", "b2"}
  Langs = {1, 2}
  FastRequests <- SentHits
  FastPlans <- SetFastPlans
SPECIFICATION Spec
VIEW RequestsView
INVARIANTS
  RequestsTypeOK
  StoredByTheRules
  
  
  PeerAnswersAreOurs
  
  RoutesAreReported
CHECK_DEADLOCK FALSE
