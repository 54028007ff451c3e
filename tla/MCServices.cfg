SPECIFICATION Spec
CONSTANT Api <- LibraryApi
INVARIANTS
  TypeOK
  SuccessIsServers
  FailureIsItsOwn
  OutputIsOwn
  StatusIsServers
  RefIsOwn
  NothingPartial
