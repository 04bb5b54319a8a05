SPECIFICATION Spec
CONSTANTS
  Processes = {p, q}
  Roots <- MCRoots
  Files <- MCFiles
  Served <- MCServed
  Entries <- MCEntries
  Keys = {"HF", "comfyui_root"}
  Words = {"a", "b", "/x"}
  Depth = 2
  Changes = 1
  Passes = 2
SYMMETRY Alike
INVARIANTS PinnedIsFixed AdmittedRuns IdsInjective
CHECK_DEADLOCK FALSE
