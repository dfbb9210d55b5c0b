SPECIFICATION Spec
CONSTANTS
  p1 = p1
  p2 = p2
  images = images
  texts = texts
  Paths = {p1, p2}
  Categories = {images}
  Category <- OneCategory
  MaxTime = 5
  MaxQueue = 2
  Limit = 1
  Requests = {{images}}
  NoKey = NoKey
INVARIANTS OrderIsIndex CaughtUp PagesAreExact
