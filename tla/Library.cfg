CONSTANTS
  Size = 4
  Width = 16
  Bytes <- TwoBytes
  Data <- Strings
  Sizes <- Lengths
  Keys <- TwelveKeys
  MaxDepth = 5
  Heads = {h1, h2}
  Entries = {e1, e2, e3}
  Blobs = {b1, b2, b3}
  Elements <- LengthsOfBlobs
  ByteValues = 8
  NL = 2
  IntValues = 64
  Block = 8
  WordBytes = 2
  DigestValues = 16
  Marker = 99
  Message <- FortyOneBytes
  PieceLengths <- PiecesOfIt
  Boxes <- TheBoxes
  DesKeys <- TheDesKeys
  DefaultKey <- TheDefaultKey
  Opcode <- TheOpcode
  KeyDigest <- Digest16
  Stale <- AnyByte
  Nothing = Nothing
  DesInputs <- TheDesInputs
  PacketLengths <- ThePacketLengths
  Inputs <- TheInputs
  CipherKeys <- TheCipherKeys
  Endpoints = {p1, p2}
  Texts <- TheTexts
  Addresses <- TheAddresses
  Ports <- ThePorts
  None = None
SPECIFICATION MCSpec
SYMMETRY Symmetry
INVARIANTS
  BalancedSet
  ListsAreRings
  DigestOfTheMessage
  ArraysOwnedOnce
  TextAndAddressAgree
  DecodingInverts
  VectorsAndStrings
PROPERTY ImplementsQueue
