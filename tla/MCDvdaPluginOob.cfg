CONSTANTS
  d1 = d1
  d2 = d2
  d3 = d3
  Discs <- MCDiscs
  Catalog <- MCCatalog
  Nums <- MCNums
  Names <- MCNames
  UIntMax <- MCUIntMax
  TrackIds <- MCTrackIds
  NoDoc = NoDoc
  TagsPath = TRUE
  TagsWithIso = TRUE
  StoreDoc <- MCStoreDoc
  IsoDoc <- MCIsoDoc
  IfoReadable <- MCIfoReadable
SPECIFICATION Spec
INVARIANT SelectInTable
