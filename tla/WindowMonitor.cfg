SPECIFICATION Spec
CONSTANTS
  default = default
  work = work
  Desktop = {default, work}
  DesktopVec <- twoDesktops
  Default = default
  Window = {w1, w2}
  Title = {mail, fader, popupTitle}
  NoTitle = NoTitle
  BlackList = {fader}
  QuietTitle = {fader, popupTitle}
  Nowhere = Nowhere
  Thread = {t1, t2}
  Nobody = Nobody
SYMMETRY Symmetry
CONSTRAINT ScansOrPopups
INVARIANTS
  MapsSound
  SectionKept
  SilencedNeverShown
PROPERTIES
  ReportedOnce
