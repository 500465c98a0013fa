\* Two processes share a directory, one has its own; two files; an inode for
\* each directory and each process.
CONSTANTS
  client1 = client1
  client2 = client2
  server = server
  home = home
  work = work
  Processes = {client1, client2, server}
  Directories = {home, work}
  Directory <- Two
  Files = {f, g}
  Inodes = {1, 2, 3, 4}
  Empty = Empty
  None = None
SPECIFICATION Spec
INVARIANTS
  TypeOK
  OwnSum
  LonersSurvive
  NoLitter
