CONSTANT Designs <- MCDesigns
SPECIFICATION Spec
INVARIANTS RefersToDeclaration ClassTypesFollow
