CONSTANTS
  Size = 3
  Letters = {a}
  Signs = {one}
  Others = {enter}
  Bytes = {byte}
  Modifiers = {"lshift", "rshift", "lctrl"}
  Nul = nul
SPECIFICATION Spec
INVARIANTS NotStuck
PROPERTIES Refinement
