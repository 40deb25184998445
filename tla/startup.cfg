SPECIFICATION Spec
CONSTANTS
  DEFAULT_CONFIG <- MCDefault
  Calls <- MCCalls
  Files <- MCFiles
  Unbindable = {"unknown"}
  Loadable = {"exceed_frequency", "query_old_data"}
PROPERTIES
  ServedAsConfigured
  KeepsServing
  
