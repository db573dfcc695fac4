\* Two messages and one edit; then nothing more comes, and the daemon waits.
CONSTANTS
  tag = tag
  s1 = s1
  s2 = s2
  script = script
  good = good
  failing = failing
  bad = bad
  halved = halved
  None = None
  Messages <- MCMessages
  Tags = {tag}
  Subs = {s1, s2}
  Scripts = {script}
  Texts = {good, failing, bad, halved}
  Parses = {good, failing, halved}
  Completes = {good, halved}
  Aborts = {halved}
  Takes <- MCTakes
  MaxMessages = 2
  MaxEdits = 1
SPECIFICATION Spec
CHECK_DEADLOCK FALSE
INVARIANTS
  NameRight
  MostRecent
PROPERTIES
  PairedRight
  Handled
