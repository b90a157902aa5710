SPECIFICATION Spec
INVARIANT PluginAsAsked
