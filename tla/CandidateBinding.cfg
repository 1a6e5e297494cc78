CONSTANTS
  brew = brew
  lib = lib
  ruby = ruby
  root = root
  dep = dep
  Commit = {"legacy", "next", "dev"}
  Release = {"legacy", "next"}
  Legacy = "legacy"
  NoCheckout = NoCheckout
  File <- Files
  Tracked <- TrackedFiles
  Content <- Versions
  Absent = Absent
  Tree <- Trees
  MaxChanges = 2
  LegacyTree <- LegacyFiles
  None = None
  Formula = {root, dep}
  Targets = {root}
  Snapshot <- Snapshots
  Bottle <- Bottles
  Offers <- Offered
SPECIFICATION WalkSpec
INVARIANTS
  BindingInvariant
  CopyIsOfRelease
  CommandRunsWhatWasInspected
  PoursWhatWasAssessed
  ExecutesFrozen
