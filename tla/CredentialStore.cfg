SPECIFICATION Spec
CONSTANTS
  Keys = {ka, kb}
  MaxTasks = 3
  None = None
INVARIANTS CredentialHeld NoPlainWithKey
PROPERTIES CredentialKept
