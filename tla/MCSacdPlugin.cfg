\* Virtual file names listed by container_scan round-trip through file_decode and scan_file.
CONSTANTS
  d1 = d1
  d2 = d2
  Discs <- MCDiscs
  TwoCh <- MCTwoCh
  MulCh <- MCMulCh
  Nums <- MCNums
  UIntMax <- MCUIntMax
SPECIFICATION Spec
INVARIANT TypeOK
INVARIANT ListedNameRoundTrip
INVARIANT ListedNameScans
