SPECIFICATION Spec
CONSTANTS
  ra = ra
  rb = rb
  rc = rc
  na = na
  nb = nb
  acme = acme
  acme2 = acme2
  gold = gold
  ann = ann
  post = post
  Rec <- MCRec
  Node = {na, nb}
  NodeOf <- MCNodeOf
  Batches <- MCBatches
  Complete = {ra, rb}
  Key = {acme, acme2, gold}
  Org = {acme, acme2}
  TableOf <- MCTableOf
  Mentions <- MCMentions
  Entrant <- MCEntrant
  Name = {"acme", "acme inc", "gold"}
  Closures <- MCClosures
  NoFact = NoFact
  NoSlug = NoSlug
  MaxRuns = 2
  MaxFaults = 1
  Person = {ann}
  NoPerson = NoPerson
  PersonOf <- MCPersonOf
  Post = {post}
  Sitemaps = {{post}}
  English = {post}
  Word = {"acme", "labs", "inc"}
  Words <- MCWords
  Letters <- MCLetters
  Text <- MCText
  Plans <- MCPlans
INVARIANTS
  CacheLive
  Isolated
  SlugsUnique
  HonorsTrue
  LayerComplete
  EdgesResolve
PROPERTIES
  IsProjection
