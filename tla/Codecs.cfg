\* Short byte strings, bt texts of up to six pieces, every combination of options, addresses with 8-byte keys.
CONSTANTS
  Bytes <- MCBytes
  MaxBytes = 5
  KeyLen = 8
  Hosts <- MCHosts
  Ports <- MCPorts
  Sockets <- MCSockets
  Keys <- MCKeys
  MaxEdits = 2
  Alphabet <- MCAlphabet
  Width = 8
  Chunks <- MCChunks
  MaxChunks = 6
SPECIFICATION Spec
CHECK_DEADLOCK FALSE
INVARIANTS EncodingsExact AddressRoundTrip ParsersAgree BtRoundTrip OptionsArrive
