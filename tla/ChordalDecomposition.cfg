SPECIFICATION Spec
CONSTANTS
  Order = 7
  RowsBefore = 1
  RowsAfter = 1
  Graphs <- ManyGraphs
  Orderings <- Shuffled
  Methods = {"none", "parent_child", "clique_graph"}
  TFill = 2
  TSize = 1
INVARIANTS
  TreeIsCliqueTree
  CliqueGraphConsistent
  CopiesAgree
  BatchMatchesDirect
  AdjointIsTranspose
  CompletionReadsKnown
