CONSTANTS
  Blocks = {b1, b2, b3, b4, b5}
  NULL = NULL
  Unset = Unset
  short = short
  long = long
  client = client
  Values <- MCValues
  Large <- MCLarge
  Failing = {"struct", "construct"}
  Overwrites = FALSE
  SignedChar = TRUE

SYMMETRY Symmetry

SPECIFICATION Spec

INVARIANTS
  LinksAgree
  BlocksHaveOneOwner

PROPERTY
  ImplementsItemSequence
