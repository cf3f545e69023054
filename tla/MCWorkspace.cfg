CONSTANTS
  Files = {f1, f2}
  Tags = {t1, t2}
  FirstTag = t1
  FirstFiles = {{}, {f1}, {f1, f2}}
  BusCapacity = 2
  MaxChanges = 2
  Changes = {"agent", "create", "delete", "move", "write", "remove", "rename"}
SPECIFICATION MCSpec
INVARIANTS TagListIsCurrent TreeIsCurrent
PROPERTIES TreeSettles
