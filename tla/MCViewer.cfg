CONSTANTS
  Files = {f1, f2}
  Texts = {a, b}
  MaxChanges = 1
  MaxCommands = 2
  Commands = {"Select", "Toggle", "Directory", "CloseTab", "CloseOthers", "CloseAll", "Edit", "Delete", "Rename"}
SPECIFICATION FairSpec
INVARIANTS TypeOK ViewerIsCurrent NothingGoneIsOpen
PROPERTIES SelectionIsLoaded
