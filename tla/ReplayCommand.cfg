CONSTANTS
  Id = {1, 2}
  MaxHeads = 1
  MaxLog = 1
  NoFile = nofile
SPECIFICATION CommandSpec
INVARIANT SavedLoads
PROPERTIES LoadIsWhole WriteErrorIsUnloadable ResultIsReport CallEnds
