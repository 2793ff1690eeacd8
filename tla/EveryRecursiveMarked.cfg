\* find_recursive_enum_names on every graph of three types: it returns some
\* member of every cycle, and not every one.
SPECIFICATION Spec
CONSTANT Types = {A, B, C}
INVARIANT EveryRecursiveMarked
