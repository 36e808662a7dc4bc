CONSTANTS
  a = a  f = f  p = p  b = b  m1 = m1  m2 = m2  s1 = s1  s2 = s2
  Tasks = {t1, t2}
  Skills = {s1, s2}
  Contents = {a, f, p, b}
  Manifests = {m1, m2}
  Drafts <- MCDrafts
  Man <- MCMan
  Pkg <- MCPkg
  Lib <- MCLib
  Own = Own
  Dlt = {m2}
  Misnamed = {}
  Common = s1
  MaxWrites = 2
  MaxEvents = 3
  None = None
SYMMETRY Symm
SPECIFICATION Spec
CHECK_DEADLOCK FALSE
INVARIANTS
  TypeOK
  CargoTomlAgrees
  ArtifactIsInstalled
  QuestionTellsBuild
PROPERTIES
  InstallsWhatWasAgreed
  NeverOverwrites
