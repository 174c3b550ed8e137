\* Two kinds of handlers, every environment.
CONSTANTS
  Handler <- Kinds
SPECIFICATION FairSpec
INVARIANTS ShellDriven HoldsWhatItUses
PROPERTIES ImplementsContract TeardownEnds ReloadApplied
