\* Three objects at most, streamed and deleted by three concurrent requests.
SPECIFICATION Spec
CONSTANTS
  None = None
  r1 = r1
  r2 = r2
  r3 = r3
  id1 = id1
  id2 = id2
  id3 = id3
  Requests = {r1, r2, r3}
  Folders = {"general", "a b"}
  SafeFolders = {"general"}
  Extensions = {".png", ".p g"}
  SafeExtensions = {".png"}
  Ids = {id1, id2, id3}
  MimeTypes = {"image/png", "text/html"}
  AllowedMimeTypes = {"image/png"}
  MaxFileSize = 1
SYMMETRY Symmetry
INVARIANTS
  TypeOK
  KnownObjectsWhole
  StreamsWhole
  RemovedStayRemoved
CHECK_DEADLOCK FALSE
