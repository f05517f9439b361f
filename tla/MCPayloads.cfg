SPECIFICATION Spec
CHECK_DEADLOCK FALSE
INVARIANTS SplitExact GlueExact StreamsExact ArchivesExact BuffersExact
PROPERTIES NeverRegresses ImplementsGroups
