----------------------------- MODULE MCFileHandles -----------------------------
EXTENDS FileHandles, TLC

Symmetry == Permutations(Processes)

\* Between calls nothing reads what is remembered of the last call.
WithoutPastCalls ==
  <<processes, files, file_descriptors, heap, descriptors, contents, mutation_disabled, call,
    IF idle THEN <<>> ELSE <<before>>>>
================================================================================
