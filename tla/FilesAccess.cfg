SPECIFICATION FilesAccessSpec
CONSTANTS
  t1 = t1
  t2 = t2
  t3 = t3
  x1 = x1
  p1 = p1
  p2 = p2
  f1 = f1
  f2 = f2
  P = P
  Q = Q
  Clients = {t1, t2}
  Paths = {p1, p2}
  Texts = {x1, x2}
  Present <- MCPresent
  MaxAsked = 3
  Nothing = Nothing
  Slots = {s1}
  Root = Root
  Folders = {f1, f2, Root}
  FolderOf <- MCFolderOf
  Above <- MCAbove
  FileCount = 3
  Size <- MCSize
  MaxFiles = 2
  MaxScan = 2
  MaxRefreshes = 2
  MaxChanges = 2
  Users = {t1, t2, t3}
  ProcessOf <- MCProcessOf
  NoUser = NoUser
  MaxDatabases = 2
  Readers = {t1, t2}
  Handles = {h1, h2}
  NoHandle = NoHandle
  MaxHandles = 1
  MaxWrites = 3
  Dirs = {d1, d2}
  Changes = {t1, t2}
  Reloaders = {t3}
  Owner = Owner
  Nobody = Nobody
  MaxPending = 1
  MaxAttempts = 1
  MaxEdits = 1
  CallWorkspace <- MCWorkspace
  Reserved <- MCReserved
  GrantRoot <- MCGrantRoot
  Tree <- MCTree
  Links <- MCLinks
  Targets <- MCTargets
  Policies <- MCPolicies
  MaxReloads = 1
  GrantMode = "delete"
  Kinds <- MCKinds
  Starters = {t4}
  Reloads = {t3}
  Turns = {t1, t2}
  Conversations = {own, other}
  Own = own
  NoId = NoId
  SessionPolicies <- MCSessionPolicies
  MaxHistoryChanges = 2
CHECK_DEADLOCK FALSE
SYMMETRY ThreadSymmetry
INVARIANTS
  StorageIsWhole
  HandlesShowWhatMayBeRead
  NothingUnasked
  RevokedShellEnds
PROPERTIES
  KeepsWorkspace
  CatalogIsTrue
  EffectiveAlone
  CallsKeepTheirScope
  ResumesItsOwn
