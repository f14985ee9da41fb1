SPECIFICATION Spec
CONSTANT Nums = {1, 2, 3, 4}
INVARIANT LedsShowCommands
