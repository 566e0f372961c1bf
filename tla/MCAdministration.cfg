SPECIFICATION AdministrationSpec
CONSTANTS
  Accounts = {x, y, z}
  Names = {m, n}
  Requests = {r1, r2}
  Nobody = Nobody
  Users = {u}
  SignInIds = {m, n}
  Tabs = {t}
  Connections = {c, d}
  Revocations = {r1, r2}
  Free = Free
  Folders = {m, n, o}
  Entries = {d, e}
  Jobs = {r1, r2}
  Root = Root
  Sockets = {m, n}
  Terminal = Terminal
  Nothing = Nothing
SYMMETRY Symmetry
INVARIANTS
  AdministrationTypeOK
  SocketsFollowSignIns
  ConnectionsFollowSignIns
  TreeSound
  FilesSound
PROPERTIES
  AccountsSound
CHECK_DEADLOCK FALSE
