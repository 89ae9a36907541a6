\* Interleaved albumart and readpicture fetches of three songs, two of them
\* sharing a directory and so the cached stream.
CONSTANTS
  Uris <- MCUris
  SegExt <- MCSegExt
  MusicRoot <- MCMusicRoot
  DbSongs <- MCDbSongs
  RealUp <- MCRealUp
  CoverFiles <- MCCoverFiles
  CoverSize <- MCCoverSize
  Pictures <- MCPictures
  PictureSize <- MCPictureSize
  BinaryLimit = 4
  XferUris <- MCXferUris
  RealDir <- MCRealDir
  ExpectedCover <- MCExpectedCover
SPECIFICATION Spec
\* Every fetch ends (done or failed) and the client asks nothing more.
CHECK_DEADLOCK FALSE
INVARIANTS TypeOK ArtFromRealDirectory AssembledIsArt
PROPERTY TransferCompletes
