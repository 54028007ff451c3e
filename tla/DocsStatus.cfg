SPECIFICATION Spec
CONSTANT Api <- LibraryApi
INVARIANT StatusOfLast
